---------------------------- MODULE Spec2Model ----------------------------
(***************************************************************************)
(* Model of the voice-data-fetcher dialogue manager (src/server.py).       *)
(*                                                                         *)
(* Text is modelled by TLA+ strings, on which TLC evaluates Len, Head,     *)
(* Tail, SubSeq and \o.  The extractors, the intent classifiers and the    *)
(* phone formatting are computed character by character as the Python     *)
(* code computes them.  Python's None is the empty tuple Nothing and a     *)
(* returned string s is the one-element tuple Just(s).                     *)
(***************************************************************************)
EXTENDS Integers, Sequences, FiniteSets, TLC

(***************************************************************************)
(* Python str / re primitives.  They are functions, not operators, so that *)
(* an argument is evaluated once, when the function is applied.            *)
(***************************************************************************)
UpperLetters == "ABCDEFGHIJKLMNOPQRSTUVWXYZ"
LowerLetters == "abcdefghijklmnopqrstuvwxyz"
DigitChars == "0123456789"

(* s[i-1] *)
Char[s \in STRING, i \in Int] == SubSeq(s, i, i)
CharSet(s) == {Char[s, i] : i \in 1..Len(s)}

UpperSet == CharSet(UpperLetters)
LowerSet == CharSet(LowerLetters)
DigitSet == CharSet(DigitChars)
AlphaSet == UpperSet \cup LowerSet
AlnumSet == AlphaSet \cup DigitSet
(* \s of the regular expressions and the characters str.strip() removes *)
SpaceSet == {" ", "\t", "\n", "\r"}
(* \w of the regular expressions *)
WordSet == AlnumSet \cup {"_"}

ToLowerMap ==
    [c \in UpperSet |->
        Char[LowerLetters, CHOOSE i \in 1..Len(UpperLetters) : Char[UpperLetters, i] = c]]
ToUpperMap ==
    [c \in LowerSet |->
        Char[UpperLetters, CHOOSE i \in 1..Len(LowerLetters) : Char[LowerLetters, i] = c]]
LowerChar[c \in STRING] == IF c \in UpperSet THEN ToLowerMap[c] ELSE c
UpperChar[c \in STRING] == IF c \in LowerSet THEN ToUpperMap[c] ELSE c

(* Python's None, and a value that is not None *)
Nothing == << >>
Just(s) == << s >>

(* s[n:] and s[:n] *)
Drop[s \in STRING, n \in Int] == SubSeq(s, n + 1, Len(s))
Take[s \in STRING, n \in Int] == SubSeq(s, 1, n)

(* str.lower() *)
Lower[s \in STRING] == IF s = "" THEN "" ELSE LowerChar[Head(s)] \o Lower[Tail(s)]

LStrip[s \in STRING] == IF s # "" /\ Head(s) \in SpaceSet THEN LStrip[Tail(s)] ELSE s

RStrip[s \in STRING] ==
    IF s # "" /\ Char[s, Len(s)] \in SpaceSet THEN RStrip[Take[s, Len(s) - 1]] ELSE s

(* str.strip() *)
Strip[s \in STRING] == RStrip[LStrip[s]]

(* str.startswith(p) *)
StartsWith[s \in STRING, p \in STRING] == Len(s) >= Len(p) /\ Take[s, Len(p)] = p

(* p in s *)
Contains[s \in STRING, p \in STRING] ==
    \E i \in 1..(Len(s) - Len(p) + 1) : SubSeq(s, i, i + Len(p) - 1) = p

(* any(p in s for p in phrases), phrases a tuple of strings *)
ContainsAny[s \in STRING, phrases \in Seq(STRING)] ==
    \E k \in 1..Len(phrases) : Contains[s, phrases[k]]

(* s in phrases *)
InList[s \in STRING, phrases \in Seq(STRING)] == \E k \in 1..Len(phrases) : phrases[k] = s

(* every character of s is in set *)
AllIn[s \in STRING, set \in SUBSET STRING] == \A i \in 1..Len(s) : Char[s, i] \in set

(* str.replace(old, new), old non-empty: leftmost, non-overlapping *)
Replace[s \in STRING, old \in STRING, new \in STRING] ==
    IF Len(s) < Len(old) THEN s
    ELSE IF StartsWith[s, old] THEN new \o Replace[Drop[s, Len(old)], old, new]
    ELSE Head(s) \o Replace[Tail(s), old, new]

(* for old, new in pairs[k..]: s = s.replace(old, new) *)
ReplaceEach[s \in STRING, pairs \in Seq(Seq(STRING)), k \in Int] ==
    IF k > Len(pairs) THEN s
    ELSE ReplaceEach[Replace[s, pairs[k][1], pairs[k][2]], pairs, k + 1]

(* s * n *)
Repeat[s \in STRING, n \in Int] == IF n <= 0 THEN "" ELSE s \o Repeat[s, n - 1]

(* alternative a (lower-case) matches at the head of s without regard to case *)
MatchesAt[s \in STRING, a \in STRING] == Len(s) >= Len(a) /\ Lower[Take[s, Len(a)]] = a

(* the first alternative, in order, that matches at the head of s; 0 when none does *)
FirstAlt[s \in STRING, alts \in Seq(STRING)] ==
    IF \E k \in 1..Len(alts) : MatchesAt[s, alts[k]]
    THEN CHOOSE k \in 1..Len(alts) :
            MatchesAt[s, alts[k]] /\ \A j \in 1..(k - 1) : ~MatchesAt[s, alts[j]]
    ELSE 0

(* re.sub(r'(a1|a2|...)', '', s, flags=re.IGNORECASE) for literal, lower-case
   alternatives *)
RemoveAlts[s \in STRING, alts \in Seq(STRING)] ==
    IF s = "" THEN ""
    ELSE IF FirstAlt[s, alts] > 0
    THEN RemoveAlts[Drop[s, Len(alts[FirstAlt[s, alts]])], alts]
    ELSE Head(s) \o RemoveAlts[Tail(s), alts]

(* length of the longest prefix of s made of characters of set *)
RunLen[s \in STRING, set \in SUBSET STRING] ==
    IF s # "" /\ Head(s) \in set THEN 1 + RunLen[Tail(s), set] ELSE 0

TitleFrom[s \in STRING, prevCased \in BOOLEAN] ==
    IF s = "" THEN ""
    ELSE IF Head(s) \in AlphaSet
    THEN (IF prevCased THEN LowerChar[Head(s)] ELSE UpperChar[Head(s)]) \o TitleFrom[Tail(s), TRUE]
    ELSE Head(s) \o TitleFrom[Tail(s), FALSE]

(* str.title() *)
Title[s \in STRING] == TitleFrom[s, FALSE]

(* s with every character outside set removed: re.sub(r'[^...]', '', s) *)
Keep[s \in STRING, set \in SUBSET STRING] ==
    IF s = "" THEN ""
    ELSE (IF Head(s) \in set THEN Head(s) ELSE "") \o Keep[Tail(s), set]

(* re.sub(r'\s+', '', s) *)
RemoveSpace[s \in STRING] ==
    IF s = "" THEN ""
    ELSE (IF Head(s) \in SpaceSet THEN "" ELSE Head(s)) \o RemoveSpace[Tail(s)]

(* s without its leading white space *)
SkipSpace[s \in STRING] == Drop[s, RunLen[s, SpaceSet]]

(* re.sub(r'\s*c\s*', 'c', s) for a single character c *)
TightenAround[s \in STRING, c \in STRING] ==
    IF s = "" THEN ""
    ELSE IF StartsWith[SkipSpace[s], c]
    THEN c \o TightenAround[SkipSpace[Tail(SkipSpace[s])], c]
    ELSE Head(s) \o TightenAround[Tail(s), c]

(* re.sub(word + r'\s+', rep, s) *)
SubWordSpace[s \in STRING, word \in STRING, rep \in STRING] ==
    IF s = "" THEN ""
    ELSE IF StartsWith[s, word] /\ RunLen[Drop[s, Len(word)], SpaceSet] >= 1
    THEN rep \o SubWordSpace[SkipSpace[Drop[s, Len(word)]], word, rep]
    ELSE Head(s) \o SubWordSpace[Tail(s), word, rep]

(* length of the match of r'country\s+code\s+' at the head of s; 0 when none *)
CountryCodeLen[s \in STRING] ==
    IF ~StartsWith[s, "country"] THEN 0
    ELSE LET r1 == Drop[s, Len("country")]
             w1 == RunLen[r1, SpaceSet]
             r2 == Drop[r1, w1]
             w2 == RunLen[Drop[r2, Len("code")], SpaceSet]
         IN IF w1 = 0 \/ ~StartsWith[r2, "code"] \/ w2 = 0 THEN 0
            ELSE Len("country") + w1 + Len("code") + w2

(* re.sub(r'country\s+code\s+', '+', s) *)
SubCountryCode[s \in STRING] ==
    IF s = "" THEN ""
    ELSE IF CountryCodeLen[s] > 0 THEN "+" \o SubCountryCode[Drop[s, CountryCodeLen[s]]]
    ELSE Head(s) \o SubCountryCode[Tail(s)]

(* number_words of extract_phone, in the dictionary's order *)
number_words ==
    << <<"zero", "0">>, <<"one", "1">>, <<"two", "2">>, <<"three", "3">>,
       <<"four", "4">>, <<"five", "5">>, <<"six", "6">>, <<"seven", "7">>,
       <<"eight", "8">>, <<"nine", "9">>, <<"oh", "0">>, <<"o", "0">> >>

(* number_words.get(w, w) *)
NumberWordGet[w \in STRING] ==
    IF \E k \in 1..Len(number_words) : number_words[k][1] = w
    THEN number_words[CHOOSE k \in 1..Len(number_words) : number_words[k][1] = w][2]
    ELSE w

(* re.sub(word + r'\s+(\w+)', lambda m: number_words.get(m.group(1), m.group(1)) * n, s) *)
SubMultiple[s \in STRING, word \in STRING, n \in Int] ==
    IF s = "" THEN ""
    ELSE IF /\ StartsWith[s, word]
            /\ RunLen[Drop[s, Len(word)], SpaceSet] >= 1
            /\ RunLen[SkipSpace[Drop[s, Len(word)]], WordSet] >= 1
    THEN LET arg == SkipSpace[Drop[s, Len(word)]]
             wl == RunLen[arg, WordSet]
         IN Repeat[NumberWordGet[Take[arg, wl]], n] \o SubMultiple[Drop[arg, wl], word, n]
    ELSE Head(s) \o SubMultiple[Tail(s), word, n]

(* re.sub(r'(\d)\s+(\d)', r'\1\2', s) *)
JoinDigits[s \in STRING] ==
    IF s = "" THEN ""
    ELSE IF /\ Head(s) \in DigitSet
            /\ RunLen[Tail(s), SpaceSet] >= 1
            /\ RunLen[SkipSpace[Tail(s)], DigitSet] >= 1
    THEN Head(s) \o Head(SkipSpace[Tail(s)]) \o JoinDigits[Tail(SkipSpace[Tail(s)])]
    ELSE Head(s) \o JoinDigits[Tail(s)]

(***************************************************************************)
(* Intent classifiers                                                      *)
(***************************************************************************)
positive_responses ==
    << "yes", "yeah", "yep", "yup", "correct", "right", "true", "confirm",
       "ok", "okay", "perfect", "exactly", "absolutely", "definitely",
       "sure", "good", "great", "fine", "proceed", "go ahead", "continue",
       "that's right", "sounds good", "looks good", "all good", "excellent" >>

negative_responses ==
    << "no", "nope", "not", "wrong", "incorrect", "false", "negative",
       "not right", "not correct", "not perfect", "that's wrong",
       "not good", "bad", "fix it", "change it", "redo", "again" >>

off_topic_keywords ==
    << "weather", "time", "date", "news", "sports", "music", "movie",
       "food", "restaurant", "travel", "joke", "story", "game" >>

(* positive_words and negative_words of handle_greeting *)
positive_words ==
    << "good", "fine", "great", "well", "excellent", "awesome", "fantastic", "ok", "okay" >>

negative_words ==
    << "not good", "bad", "terrible", "awful", "not well", "sick", "tired",
       "stressed", "not doing good", "not great" >>

(* is_positive_response that gives way to a negative phrase *)
is_positive_response_unless_negative(text) ==
    /\ InList[Strip[Lower[text]], positive_responses]
       \/ ContainsAny[Strip[Lower[text]], positive_responses]
    /\ ~ContainsAny[Strip[Lower[text]], negative_responses]

is_positive_response(text) ==
    InList[Strip[Lower[text]], positive_responses]
    \/ ContainsAny[Strip[Lower[text]], positive_responses]

is_negative_response(text) ==
    InList[Strip[Lower[text]], negative_responses]
    \/ ContainsAny[Strip[Lower[text]], negative_responses]

(* is_off_topic_question that looks for the keyword as the whole utterance *)
is_off_topic_question_exact(text) == InList[Lower[text], off_topic_keywords]

is_off_topic_question(text) == ContainsAny[Lower[text], off_topic_keywords]

(***************************************************************************)
(* Field extractors                                                        *)
(***************************************************************************)
skip_phrases ==
    << "what's your name", "your name is", "what is your name",
       "tell me your name", "can you tell me", "please tell me" >>

(* the value an extractor hands back once its length and characters are checked *)
NameChecked[name \in STRING] ==
    IF Len(name) < 2 \/ Len(name) > 50 \/ ~AllIn[name, AlphaSet \cup SpaceSet]
    THEN Nothing ELSE Just(Title[name])

extract_name(text) ==
    IF ContainsAny[Lower[text], skip_phrases] THEN Nothing
    ELSE NameChecked[Strip[RemoveAlts[Strip[text], << "my name is", "i am", "i'm", "call me" >>]]]

CompanyChecked[company \in STRING] ==
    IF Len(company) < 2 \/ Len(company) > 100 THEN Nothing ELSE Just(Title[company])

extract_company(text) ==
    IF text = "" \/ Len(Strip[text]) < 2 THEN Nothing
    ELSE CompanyChecked[Strip[RemoveAlts[Strip[text],
             << "i work at", "my company is", "company is", "i'm from",
                "i work for", "company" >>]]]

CountryChecked[country \in STRING] ==
    IF Len(country) < 2 \/ Len(country) > 50 THEN Nothing ELSE Just(Title[country])

extract_country(text) ==
    IF text = "" \/ Len(Strip[text]) < 2 THEN Nothing
    ELSE CountryChecked[Strip[RemoveAlts[Lower[Strip[text]],
             << "i am from", "i'm from", "from", "country is", "my country" >>]]]

(* replacements of extract_email, in the dictionary's order *)
replacements ==
    << <<" at the rate ", "@">>, <<" at ", "@">>, <<" @ ", "@">>, <<" add ", "@">>,
       <<" dot ", ".">>, <<" period ", ".">>, <<" point ", ".">>, <<" full stop ", ".">>,
       <<" gmail ", "gmail">>, <<" g mail ", "gmail">>, <<" jemail ", "gmail">>,
       <<" yahoo ", "yahoo">>, <<" ya who ", "yahoo">>, <<" yahu ", "yahoo">>,
       <<" hotmail ", "hotmail">>, <<" hot mail ", "hotmail">>,
       <<" outlook ", "outlook">>, <<" out look ", "outlook">>,
       <<" underscore ", "_">>, <<" dash ", "-">>, <<" hyphen ", "-">>,
       <<"dot com", ".com">>, <<"dot org", ".org">>, <<"dot net", ".net">>, <<"dot in", ".in">>,
       <<"gmail dot com", "gmail.com">>, <<"yahoo dot com", "yahoo.com">>,
       <<"hotmail dot com", "hotmail.com">>, <<"outlook dot com", "outlook.com">> >>

LocalSet == AlnumSet \cup {".", "_", "-"}
DomainSet == AlnumSet \cup {".", "-"}

(* d[p-1] is a dot that two letters or more follow *)
DotBeforeTld[d \in STRING, p \in Int] == Char[d, p] = "." /\ RunLen[Drop[d, p], AlphaSet] >= 2

(* length of the match of r'[a-zA-Z0-9][a-zA-Z0-9.-]*\.[a-zA-Z]{2,}' at the head of
   d, the star and the final letters both greedy; 0 when none *)
DomainMatchLen[d \in STRING] ==
    IF d = "" \/ Head(d) \notin AlnumSet THEN 0
    ELSE IF \E p \in 2..RunLen[d, DomainSet] : DotBeforeTld[d, p]
    THEN LET p == CHOOSE q \in 2..RunLen[d, DomainSet] :
                     DotBeforeTld[d, q] /\ \A q2 \in (q + 1)..RunLen[d, DomainSet] : ~DotBeforeTld[d, q2]
         IN p + RunLen[Drop[d, p], AlphaSet]
    ELSE 0

(* length of the match of the e-mail pattern at the head of s; 0 when none *)
EmailMatchLen[s \in STRING] ==
    IF s = "" \/ Head(s) \notin AlnumSet THEN 0
    ELSE IF /\ RunLen[s, LocalSet] < Len(s)
            /\ Char[s, RunLen[s, LocalSet] + 1] = "@"
            /\ DomainMatchLen[Drop[s, RunLen[s, LocalSet] + 1]] > 0
    THEN RunLen[s, LocalSet] + 1 + DomainMatchLen[Drop[s, RunLen[s, LocalSet] + 1]]
    ELSE 0

(* re.match(email_pattern, s): the whole of s is one e-mail *)
StrictEmail[s \in STRING] == Len(s) > 0 /\ EmailMatchLen[s] = Len(s)

(* re.findall(email_pattern_loose, s)[:1]: the leftmost match, if any *)
LooseEmail[s \in STRING] ==
    LET starts == {i \in 1..Len(s) : EmailMatchLen[Drop[s, i - 1]] > 0}
    IN IF starts = {} THEN Nothing
       ELSE LET i == CHOOSE j \in starts : \A j2 \in starts : j <= j2
            IN Just(Take[Drop[s, i - 1], EmailMatchLen[Drop[s, i - 1]]])

(* text is what is left once the replacements are made and the white space around
   '@' and '.' is removed *)
EmailFound[text \in STRING] ==
    IF StrictEmail[RemoveSpace[text]] THEN Just(Lower[RemoveSpace[text]])
    ELSE IF LooseEmail[text] # Nothing THEN Just(Lower[LooseEmail[text][1]])
    ELSE Nothing

extract_email(text) ==
    IF text = "" \/ Len(Strip[text]) < 5 THEN Nothing
    ELSE EmailFound[TightenAround[TightenAround[
             ReplaceEach[Strip[Lower[text]], replacements, 1], "@"], "."]]

(* phone_chars is what is left of the text once all but digits and '+' is removed *)
PhoneFound[phone_chars \in STRING] ==
    IF StartsWith[phone_chars, "+"]
    THEN (IF Len(phone_chars) - 1 >= 8 /\ Len(phone_chars) - 1 <= 15
          THEN Just(phone_chars) ELSE Nothing)
    ELSE IF Len(phone_chars) >= 8 /\ Len(phone_chars) <= 15
    THEN Just(phone_chars) ELSE Nothing

extract_phone(text) ==
    IF text = "" \/ Len(Strip[text]) < 3 THEN Nothing
    ELSE PhoneFound[Keep[JoinDigits[ReplaceEach[
             SubMultiple[SubMultiple[
                 SubCountryCode[SubWordSpace[Strip[Lower[text]], "plus", "+"]],
                 "double", 2], "triple", 3],
             number_words, 1]], DigitSet \cup {"+"}]]

(* str.isdigit() *)
IsDigit[s \in STRING] == s # "" /\ AllIn[s, DigitSet]

validate_phone(phone) ==
    IF phone = "" THEN FALSE
    ELSE IF StartsWith[phone, "+"]
    THEN Len(phone) - 1 >= 8 /\ Len(phone) - 1 <= 15 /\ IsDigit[Tail(phone)]
    ELSE Len(phone) >= 8 /\ Len(phone) <= 15 /\ IsDigit[phone]

country_codes ==
    ("usa" :> "+1") @@ ("united states" :> "+1") @@ ("america" :> "+1") @@ ("us" :> "+1") @@
    ("india" :> "+91") @@ ("uk" :> "+44") @@ ("united kingdom" :> "+44") @@
    ("britain" :> "+44") @@ ("canada" :> "+1") @@ ("australia" :> "+61") @@
    ("germany" :> "+49") @@ ("france" :> "+33") @@ ("japan" :> "+81") @@
    ("china" :> "+86") @@ ("brazil" :> "+55") @@ ("russia" :> "+7") @@
    ("italy" :> "+39") @@ ("spain" :> "+34") @@ ("netherlands" :> "+31") @@
    ("sweden" :> "+46") @@ ("norway" :> "+47") @@ ("denmark" :> "+45") @@
    ("finland" :> "+358") @@ ("poland" :> "+48") @@ ("turkey" :> "+90") @@
    ("south africa" :> "+27") @@ ("egypt" :> "+20") @@ ("nigeria" :> "+234") @@
    ("kenya" :> "+254") @@ ("ghana" :> "+233") @@ ("uae" :> "+971") @@
    ("saudi arabia" :> "+966") @@ ("singapore" :> "+65") @@ ("malaysia" :> "+60") @@
    ("thailand" :> "+66") @@ ("philippines" :> "+63") @@ ("indonesia" :> "+62") @@
    ("vietnam" :> "+84") @@ ("south korea" :> "+82") @@ ("taiwan" :> "+886")

(* country_codes.get(country.lower(), '') *)
CountryCode[country_lower \in STRING] ==
    IF country_lower \in DOMAIN country_codes THEN country_codes[country_lower] ELSE ""

(* format_phone_with_country that looks the country up as it is spelled *)
format_phone_with_country_as_spelled(phone, country) ==
    IF phone = "" \/ country = "" THEN phone
    ELSE IF StartsWith[phone, "+"] THEN phone
    ELSE IF CountryCode[country] # "" THEN CountryCode[country] \o phone
    ELSE phone

format_phone_with_country(phone, country) ==
    IF phone = "" \/ country = "" THEN phone
    ELSE IF StartsWith[phone, "+"] THEN phone
    ELSE IF CountryCode[Lower[country]] # "" THEN CountryCode[Lower[country]] \o phone
    ELSE phone

(***************************************************************************)
(* What the visitor may say, and the bot object.  VoiceBotManager() is the  *)
(* object the module builds once, seen through its methods: for each       *)
(* classifier and extractor, its answer to every utterance.  The object    *)
(* is held in bot_manager, and the handlers read bot_manager.method[text]  *)
(* where the code calls self.method(text).                                 *)
(***************************************************************************)
Silence == { "" }
(* answers to "is that correct?" and to "should I submit?" *)
YesNo == { "yes", "no", "not good" }
(* answers to "how are you today?" *)
Moods == { "good", "not good", "what's the weather" }

(* a mood word and an off-topic keyword in one utterance *)
Mixed == { "good weather" }

(* an utterance that holds a phrase of each list, positive and negative *)
Contrary == { "not correct" }
(* answers to the question for a field *)
Told ==
    [name |-> { "my name is john" },
     company |-> { "i work at acme" },
     email |-> { "john at gmail dot com" },
     phone |-> { "9876543210", "plus 919876543210", "987654321098765" },
     country |-> { "india", "atlantis" }]

(* a phone number as a visitor may mumble it: extract_phone accepts it with its
   '+' in the middle, validate_phone does not *)
Garbled == { "9876 plus 543210" }

Utterances ==
    Silence \cup YesNo \cup Moods \cup Told.name \cup Told.company \cup Told.email
    \cup Told.phone \cup Told.country \cup Garbled \cup Mixed \cup Contrary

VoiceBotManager ==
    [is_off_topic_question |-> [u \in Utterances |-> is_off_topic_question(u)],
     is_positive_response |-> [u \in Utterances |-> is_positive_response(u)],
     is_negative_response |-> [u \in Utterances |-> is_negative_response(u)],
     extract_name |-> [u \in Utterances |-> extract_name(u)],
     extract_company |-> [u \in Utterances |-> extract_company(u)],
     extract_email |-> [u \in Utterances |-> extract_email(u)],
     extract_phone |-> [u \in Utterances |-> extract_phone(u)],
     extract_country |-> [u \in Utterances |-> extract_country(u)],
     empty_user_data |-> [name |-> "", company |-> "", email |-> "", phone |-> "", country |-> ""]]

(* the module's bot object: bot_manager = VoiceBotManager() *)
VARIABLE bot_manager

(***************************************************************************)
(* The dialogue state machine (class VoiceBotManager)                      *)
(*                                                                         *)
(* A record is a Python dict: a function from the keys it holds to         *)
(* strings.  A handler mutates user_data in place, so what it hands back   *)
(* is [raised, user_data, result, sink]: whether it raised (a KeyError on  *)
(* an absent key), the dict as the handler left it, the dict it returned   *)
(* and the records it handed to save_visitor_data.                         *)
(***************************************************************************)
Fields == << "name", "company", "email", "phone", "country" >>
FieldSet == {Fields[i] : i \in 1..Len(Fields)}

empty_user_data == [k \in FieldSet |-> ""]

(* user_data[k] = v *)
Put(d, k, v) == (k :> v) @@ d

Return(res, d) == [raised |-> FALSE, user_data |-> d, result |-> res, sink |-> << >>]
Raise(d) == [raised |-> TRUE, user_data |-> d, result |-> Nothing, sink |-> << >>]

OffTopicReplies ==
    { "That's interesting! But let's focus on getting your details for the AWS Community Day event. How are you today?",
      "I appreciate your question! However, I'm here to help collect your information for our event. How are you feeling today?",
      "Great question! Let's get back to our registration process. How are you doing?" }

(* response is random.choice(responses): the reply drawn is the argument choice *)
handle_off_topic(user_input, user_data, choice) ==
    Return([bot_response |-> choice,
            new_state |-> "greeting",
            updated_data |-> user_data,
            current_field |-> "",
            awaiting_confirmation |-> FALSE], user_data)

handle_greeting(user_input, user_data, current_field, awaiting_confirmation, choice) ==
    IF bot_manager.is_off_topic_question[user_input] THEN handle_off_topic(user_input, user_data, choice)
    ELSE IF ContainsAny[Lower[user_input], negative_words]
    THEN Return([bot_response |-> "I'm sorry to hear that. I hope our event can brighten your day! Let's get you registered. What's your name?",
                 new_state |-> "collect_name",
                 updated_data |-> user_data,
                 current_field |-> "name",
                 awaiting_confirmation |-> FALSE], user_data)
    ELSE IF ContainsAny[Lower[user_input], positive_words]
    THEN Return([bot_response |-> "Wonderful! Let's get started. What's your name?",
                 new_state |-> "collect_name",
                 updated_data |-> user_data,
                 current_field |-> "name",
                 awaiting_confirmation |-> FALSE], user_data)
    ELSE Return([bot_response |-> "Hello! How are you doing today?",
                 new_state |-> "greeting",
                 updated_data |-> user_data,
                 current_field |-> "",
                 awaiting_confirmation |-> FALSE], user_data)

(* handle_name_collection that leaves the flag set when the name is confirmed *)
handle_name_collection_keeps_awaiting(user_input, user_data, current_field, awaiting_confirmation) ==
    IF awaiting_confirmation
    THEN IF bot_manager.is_positive_response[user_input]
         THEN IF "name" \notin DOMAIN user_data THEN Raise(user_data)
             ELSE Return([bot_response |-> "Excellent! Which company do you work for, " \o user_data["name"] \o "?",
                      new_state |-> "collect_company",
                      updated_data |-> user_data,
                      current_field |-> "company",
                      awaiting_confirmation |-> TRUE], user_data)
         ELSE IF bot_manager.is_negative_response[user_input]
         THEN LET d == Put(user_data, "name", "")
              IN Return([bot_response |-> "No problem! Please tell me your correct name, or if you prefer, you can type it manually.",
                         new_state |-> "collect_name",
                         updated_data |-> d,
                         current_field |-> "name",
                         awaiting_confirmation |-> FALSE,
                         show_manual_input |-> TRUE,
                         manual_field |-> "name"], d)
         ELSE Return([bot_response |-> "I didn't understand. Is your name correct? Please say yes or no.",
                      new_state |-> "collect_name",
                      updated_data |-> user_data,
                      current_field |-> "name",
                      awaiting_confirmation |-> TRUE], user_data)
    ELSE LET name == bot_manager.extract_name[user_input]
         IN IF name # Nothing /\ name[1] # ""
            THEN LET d == Put(user_data, "name", name[1])
                 IN Return([bot_response |-> "I heard your name as " \o name[1] \o ". Is that correct?",
                            new_state |-> "collect_name",
                            updated_data |-> d,
                            current_field |-> "name",
                            awaiting_confirmation |-> TRUE], d)
            ELSE Return([bot_response |-> "I couldn't catch your name clearly. Could you please speak your name slowly, or type it manually?",
                         new_state |-> "collect_name",
                         updated_data |-> user_data,
                         current_field |-> "name",
                         awaiting_confirmation |-> FALSE,
                         show_manual_input |-> TRUE,
                         manual_field |-> "name"], user_data)

(* handle_name_collection that drops the flag when the answer is not understood *)
handle_name_collection_drops_flag(user_input, user_data, current_field, awaiting_confirmation) ==
    IF awaiting_confirmation
    THEN IF bot_manager.is_positive_response[user_input]
         THEN IF "name" \notin DOMAIN user_data THEN Raise(user_data)
             ELSE Return([bot_response |-> "Excellent! Which company do you work for, " \o user_data["name"] \o "?",
                      new_state |-> "collect_company",
                      updated_data |-> user_data,
                      current_field |-> "company",
                      awaiting_confirmation |-> FALSE], user_data)
         ELSE IF bot_manager.is_negative_response[user_input]
         THEN LET d == Put(user_data, "name", "")
              IN Return([bot_response |-> "No problem! Please tell me your correct name, or if you prefer, you can type it manually.",
                         new_state |-> "collect_name",
                         updated_data |-> d,
                         current_field |-> "name",
                         awaiting_confirmation |-> FALSE,
                         show_manual_input |-> TRUE,
                         manual_field |-> "name"], d)
         ELSE Return([bot_response |-> "I didn't understand. Is your name correct? Please say yes or no.",
                      new_state |-> "collect_name",
                      updated_data |-> user_data,
                      current_field |-> "name",
                      awaiting_confirmation |-> FALSE], user_data)
    ELSE LET name == bot_manager.extract_name[user_input]
         IN IF name # Nothing /\ name[1] # ""
            THEN LET d == Put(user_data, "name", name[1])
                 IN Return([bot_response |-> "I heard your name as " \o name[1] \o ". Is that correct?",
                            new_state |-> "collect_name",
                            updated_data |-> d,
                            current_field |-> "name",
                            awaiting_confirmation |-> TRUE], d)
            ELSE Return([bot_response |-> "I couldn't catch your name clearly. Could you please speak your name slowly, or type it manually?",
                         new_state |-> "collect_name",
                         updated_data |-> user_data,
                         current_field |-> "name",
                         awaiting_confirmation |-> FALSE,
                         show_manual_input |-> TRUE,
                         manual_field |-> "name"], user_data)

handle_name_collection(user_input, user_data, current_field, awaiting_confirmation) ==
    IF awaiting_confirmation
    THEN IF bot_manager.is_positive_response[user_input]
         THEN IF "name" \notin DOMAIN user_data THEN Raise(user_data)
             ELSE Return([bot_response |-> "Excellent! Which company do you work for, " \o user_data["name"] \o "?",
                      new_state |-> "collect_company",
                      updated_data |-> user_data,
                      current_field |-> "company",
                      awaiting_confirmation |-> FALSE], user_data)
         ELSE IF bot_manager.is_negative_response[user_input]
         THEN LET d == Put(user_data, "name", "")
              IN Return([bot_response |-> "No problem! Please tell me your correct name, or if you prefer, you can type it manually.",
                         new_state |-> "collect_name",
                         updated_data |-> d,
                         current_field |-> "name",
                         awaiting_confirmation |-> FALSE,
                         show_manual_input |-> TRUE,
                         manual_field |-> "name"], d)
         ELSE Return([bot_response |-> "I didn't understand. Is your name correct? Please say yes or no.",
                      new_state |-> "collect_name",
                      updated_data |-> user_data,
                      current_field |-> "name",
                      awaiting_confirmation |-> TRUE], user_data)
    ELSE LET name == bot_manager.extract_name[user_input]
         IN IF name # Nothing /\ name[1] # ""
            THEN LET d == Put(user_data, "name", name[1])
                 IN Return([bot_response |-> "I heard your name as " \o name[1] \o ". Is that correct?",
                            new_state |-> "collect_name",
                            updated_data |-> d,
                            current_field |-> "name",
                            awaiting_confirmation |-> TRUE], d)
            ELSE Return([bot_response |-> "I couldn't catch your name clearly. Could you please speak your name slowly, or type it manually?",
                         new_state |-> "collect_name",
                         updated_data |-> user_data,
                         current_field |-> "name",
                         awaiting_confirmation |-> FALSE,
                         show_manual_input |-> TRUE,
                         manual_field |-> "name"], user_data)

handle_company_collection(user_input, user_data, current_field, awaiting_confirmation) ==
    IF awaiting_confirmation
    THEN IF bot_manager.is_positive_response[user_input]
         THEN Return([bot_response |-> "Perfect! Now, what's your email address?",
                      new_state |-> "collect_email",
                      updated_data |-> user_data,
                      current_field |-> "email",
                      awaiting_confirmation |-> FALSE], user_data)
         ELSE IF bot_manager.is_negative_response[user_input]
         THEN LET d == Put(user_data, "company", "")
              IN Return([bot_response |-> "Let me get that right. Which company do you work for? You can speak it or type it manually.",
                         new_state |-> "collect_company",
                         updated_data |-> d,
                         current_field |-> "company",
                         awaiting_confirmation |-> FALSE,
                         show_manual_input |-> TRUE,
                         manual_field |-> "company"], d)
         ELSE Return([bot_response |-> "Is your company name correct? Please say yes or no.",
                      new_state |-> "collect_company",
                      updated_data |-> user_data,
                      current_field |-> "company",
                      awaiting_confirmation |-> TRUE], user_data)
    ELSE LET company == bot_manager.extract_company[user_input]
         IN IF company # Nothing /\ company[1] # "" /\ Len(Strip[company[1]]) > 1
            THEN LET d == Put(user_data, "company", company[1])
                 IN Return([bot_response |-> "I heard your company as " \o company[1] \o ". Is that correct?",
                            new_state |-> "collect_company",
                            updated_data |-> d,
                            current_field |-> "company",
                            awaiting_confirmation |-> TRUE], d)
            ELSE Return([bot_response |-> "Could you please tell me your company name clearly, or type it manually?",
                         new_state |-> "collect_company",
                         updated_data |-> user_data,
                         current_field |-> "company",
                         awaiting_confirmation |-> FALSE,
                         show_manual_input |-> TRUE,
                         manual_field |-> "company"], user_data)

(* handle_email_collection that clears the name when the e-mail is refused *)
handle_email_collection_clears_name(user_input, user_data, current_field, awaiting_confirmation) ==
    IF awaiting_confirmation
    THEN IF bot_manager.is_positive_response[user_input]
         THEN Return([bot_response |-> "Excellent! Now, what's your phone number?",
                      new_state |-> "collect_phone",
                      updated_data |-> user_data,
                      current_field |-> "phone",
                      awaiting_confirmation |-> FALSE], user_data)
         ELSE IF bot_manager.is_negative_response[user_input]
         THEN LET d == Put(user_data, "name", "")
              IN Return([bot_response |-> "Let me get your email right. Please speak it clearly like 'john at gmail dot com', or type it manually.",
                         new_state |-> "collect_email",
                         updated_data |-> d,
                         current_field |-> "email",
                         awaiting_confirmation |-> FALSE,
                         show_manual_input |-> TRUE,
                         manual_field |-> "email"], d)
         ELSE Return([bot_response |-> "Is your email address correct? Please say yes or no.",
                      new_state |-> "collect_email",
                      updated_data |-> user_data,
                      current_field |-> "email",
                      awaiting_confirmation |-> TRUE], user_data)
    ELSE LET email == bot_manager.extract_email[user_input]
         IN IF email # Nothing /\ email[1] # ""
            THEN LET d == Put(user_data, "email", email[1])
                 IN Return([bot_response |-> "I heard your email as " \o email[1] \o ". Is that correct?",
                            new_state |-> "collect_email",
                            updated_data |-> d,
                            current_field |-> "email",
                            awaiting_confirmation |-> TRUE], d)
            ELSE Return([bot_response |-> "I couldn't catch your email clearly. Please speak it like 'john at gmail dot com', or type it manually.",
                         new_state |-> "collect_email",
                         updated_data |-> user_data,
                         current_field |-> "email",
                         awaiting_confirmation |-> FALSE,
                         show_manual_input |-> TRUE,
                         manual_field |-> "email"], user_data)

handle_email_collection(user_input, user_data, current_field, awaiting_confirmation) ==
    IF awaiting_confirmation
    THEN IF bot_manager.is_positive_response[user_input]
         THEN Return([bot_response |-> "Excellent! Now, what's your phone number?",
                      new_state |-> "collect_phone",
                      updated_data |-> user_data,
                      current_field |-> "phone",
                      awaiting_confirmation |-> FALSE], user_data)
         ELSE IF bot_manager.is_negative_response[user_input]
         THEN LET d == Put(user_data, "email", "")
              IN Return([bot_response |-> "Let me get your email right. Please speak it clearly like 'john at gmail dot com', or type it manually.",
                         new_state |-> "collect_email",
                         updated_data |-> d,
                         current_field |-> "email",
                         awaiting_confirmation |-> FALSE,
                         show_manual_input |-> TRUE,
                         manual_field |-> "email"], d)
         ELSE Return([bot_response |-> "Is your email address correct? Please say yes or no.",
                      new_state |-> "collect_email",
                      updated_data |-> user_data,
                      current_field |-> "email",
                      awaiting_confirmation |-> TRUE], user_data)
    ELSE LET email == bot_manager.extract_email[user_input]
         IN IF email # Nothing /\ email[1] # ""
            THEN LET d == Put(user_data, "email", email[1])
                 IN Return([bot_response |-> "I heard your email as " \o email[1] \o ". Is that correct?",
                            new_state |-> "collect_email",
                            updated_data |-> d,
                            current_field |-> "email",
                            awaiting_confirmation |-> TRUE], d)
            ELSE Return([bot_response |-> "I couldn't catch your email clearly. Please speak it like 'john at gmail dot com', or type it manually.",
                         new_state |-> "collect_email",
                         updated_data |-> user_data,
                         current_field |-> "email",
                         awaiting_confirmation |-> FALSE,
                         show_manual_input |-> TRUE,
                         manual_field |-> "email"], user_data)

(* handle_phone_collection that stores what extract_phone returns without validate_phone *)
handle_phone_collection_unvalidated(user_input, user_data, current_field, awaiting_confirmation) ==
    IF awaiting_confirmation
    THEN IF bot_manager.is_positive_response[user_input]
         THEN Return([bot_response |-> "Great! Which country are you from? This helps me format your number correctly.",
                      new_state |-> "collect_country",
                      updated_data |-> user_data,
                      current_field |-> "country",
                      awaiting_confirmation |-> FALSE], user_data)
         ELSE IF bot_manager.is_negative_response[user_input]
         THEN LET d == Put(user_data, "phone", "")
              IN Return([bot_response |-> "No problem! Please provide your correct phone number.",
                         new_state |-> "collect_phone",
                         updated_data |-> d,
                         current_field |-> "phone",
                         awaiting_confirmation |-> FALSE,
                         show_manual_input |-> TRUE,
                         manual_field |-> "phone"], d)
         ELSE Return([bot_response |-> "Is your phone number correct? Please say yes or no.",
                      new_state |-> "collect_phone",
                      updated_data |-> user_data,
                      current_field |-> "phone",
                      awaiting_confirmation |-> TRUE], user_data)
    ELSE LET phone == bot_manager.extract_phone[user_input]
         IN IF phone # Nothing /\ phone[1] # ""
            THEN LET d == Put(user_data, "phone", phone[1])
                 IN Return([bot_response |-> "I heard your phone number as " \o phone[1] \o ". Is that correct?",
                            new_state |-> "collect_phone",
                            updated_data |-> d,
                            current_field |-> "phone",
                            awaiting_confirmation |-> TRUE], d)
            ELSE Return([bot_response |-> "Please speak your phone number digit by digit, like 'nine eight seven six five four three two one'.",
                         new_state |-> "collect_phone",
                         updated_data |-> user_data,
                         current_field |-> "phone",
                         awaiting_confirmation |-> FALSE,
                         show_manual_input |-> TRUE,
                         manual_field |-> "phone"], user_data)

handle_phone_collection(user_input, user_data, current_field, awaiting_confirmation) ==
    IF awaiting_confirmation
    THEN IF bot_manager.is_positive_response[user_input]
         THEN Return([bot_response |-> "Great! Which country are you from? This helps me format your number correctly.",
                      new_state |-> "collect_country",
                      updated_data |-> user_data,
                      current_field |-> "country",
                      awaiting_confirmation |-> FALSE], user_data)
         ELSE IF bot_manager.is_negative_response[user_input]
         THEN LET d == Put(user_data, "phone", "")
              IN Return([bot_response |-> "No problem! Please provide your correct phone number.",
                         new_state |-> "collect_phone",
                         updated_data |-> d,
                         current_field |-> "phone",
                         awaiting_confirmation |-> FALSE,
                         show_manual_input |-> TRUE,
                         manual_field |-> "phone"], d)
         ELSE Return([bot_response |-> "Is your phone number correct? Please say yes or no.",
                      new_state |-> "collect_phone",
                      updated_data |-> user_data,
                      current_field |-> "phone",
                      awaiting_confirmation |-> TRUE], user_data)
    ELSE LET phone == bot_manager.extract_phone[user_input]
         IN IF phone # Nothing /\ phone[1] # "" /\ validate_phone(phone[1])
            THEN LET d == Put(user_data, "phone", phone[1])
                 IN Return([bot_response |-> "I heard your phone number as " \o phone[1] \o ". Is that correct?",
                            new_state |-> "collect_phone",
                            updated_data |-> d,
                            current_field |-> "phone",
                            awaiting_confirmation |-> TRUE], d)
            ELSE Return([bot_response |-> "Please speak your phone number digit by digit, like 'nine eight seven six five four three two one'.",
                         new_state |-> "collect_phone",
                         updated_data |-> user_data,
                         current_field |-> "phone",
                         awaiting_confirmation |-> FALSE,
                         show_manual_input |-> TRUE,
                         manual_field |-> "phone"], user_data)

handle_country_collection(user_input, user_data, current_field, awaiting_confirmation) ==
    IF awaiting_confirmation
    THEN IF bot_manager.is_positive_response[user_input]
         THEN IF ~({"phone", "country"} \subseteq DOMAIN user_data) THEN Raise(user_data)
              ELSE LET formatted_phone ==
                           format_phone_with_country(user_data["phone"], user_data["country"])
                       d == Put(user_data, "phone", formatted_phone)
                   IN IF ~({"name", "company", "email"} \subseteq DOMAIN d) THEN Raise(d)
                      ELSE Return([bot_response |->
                                       "Perfect! Let me confirm your details: Name: " \o d["name"]
                                       \o ", Company: " \o d["company"]
                                       \o ", Email: " \o d["email"]
                                       \o ", Phone: " \o d["phone"]
                                       \o ". Should I submit this information?",
                                   new_state |-> "final_confirmation",
                                   updated_data |-> d,
                                   current_field |-> "",
                                   awaiting_confirmation |-> FALSE], d)
         ELSE IF bot_manager.is_negative_response[user_input]
         THEN LET d == Put(user_data, "country", "")
              IN Return([bot_response |-> "Which country are you from?",
                         new_state |-> "collect_country",
                         updated_data |-> d,
                         current_field |-> "country",
                         awaiting_confirmation |-> FALSE,
                         show_manual_input |-> TRUE,
                         manual_field |-> "country"], d)
         ELSE Return([bot_response |-> "Is your country correct? Please say yes or no.",
                      new_state |-> "collect_country",
                      updated_data |-> user_data,
                      current_field |-> "country",
                      awaiting_confirmation |-> TRUE], user_data)
    ELSE LET country == bot_manager.extract_country[user_input]
         IN IF country # Nothing /\ country[1] # ""
            THEN LET d == Put(user_data, "country", country[1])
                 IN Return([bot_response |-> "I heard " \o country[1] \o ". Is that correct?",
                            new_state |-> "collect_country",
                            updated_data |-> d,
                            current_field |-> "country",
                            awaiting_confirmation |-> TRUE], d)
            ELSE Return([bot_response |-> "Could you please tell me your country name clearly?",
                         new_state |-> "collect_country",
                         updated_data |-> user_data,
                         current_field |-> "country",
                         awaiting_confirmation |-> FALSE,
                         show_manual_input |-> TRUE,
                         manual_field |-> "country"], user_data)

(* The effect of save_visitor_data on the dict it is given: the two keys it
   stamps, now being datetime.now() as formatted. *)
save_visitor_data(user_data, now) ==
    Put(Put(user_data, "timestamp", now), "event", "Community Day")

(* handle_final_confirmation that thanks the visitor without saving the record *)
handle_final_confirmation_no_save(user_input, user_data, current_field, awaiting_confirmation, now) ==
    IF bot_manager.is_positive_response[user_input]
    THEN LET d == user_data
         IN [raised |-> FALSE,
             user_data |-> d,
             result |-> [bot_response |-> "Fantastic! Your information has been successfully submitted. Thank you for visiting Operisoft at the Community Day event. We'll be in touch soon!",
                         new_state |-> "finished",
                         updated_data |-> d,
                         current_field |-> "",
                         awaiting_confirmation |-> FALSE],
             sink |-> << >>]
    ELSE IF bot_manager.is_negative_response[user_input]
    THEN Return([bot_response |-> "No problem! Let's start fresh. What's your name?",
                 new_state |-> "collect_name",
                 updated_data |-> bot_manager.empty_user_data,
                 current_field |-> "name",
                 awaiting_confirmation |-> FALSE], user_data)
    ELSE Return([bot_response |-> "Should I submit your information? Please say yes to submit or no to start over.",
                 new_state |-> "final_confirmation",
                 updated_data |-> user_data,
                 current_field |-> "",
                 awaiting_confirmation |-> FALSE], user_data)

(* handle_final_confirmation that starts over without resetting the record *)
handle_final_confirmation_keeps_record(user_input, user_data, current_field, awaiting_confirmation, now) ==
    IF bot_manager.is_positive_response[user_input]
    THEN LET d == save_visitor_data(user_data, now)
         IN [raised |-> FALSE,
             user_data |-> d,
             result |-> [bot_response |-> "Fantastic! Your information has been successfully submitted. Thank you for visiting Operisoft at the Community Day event. We'll be in touch soon!",
                         new_state |-> "finished",
                         updated_data |-> d,
                         current_field |-> "",
                         awaiting_confirmation |-> FALSE],
             sink |-> << d >>]
    ELSE IF bot_manager.is_negative_response[user_input]
    THEN Return([bot_response |-> "No problem! Let's start fresh. What's your name?",
                 new_state |-> "collect_name",
                 updated_data |-> user_data,
                 current_field |-> "name",
                 awaiting_confirmation |-> FALSE], user_data)
    ELSE Return([bot_response |-> "Should I submit your information? Please say yes to submit or no to start over.",
                 new_state |-> "final_confirmation",
                 updated_data |-> user_data,
                 current_field |-> "",
                 awaiting_confirmation |-> FALSE], user_data)

(* handle_final_confirmation that sets the flag when it repeats its prompt *)
handle_final_confirmation_awaits(user_input, user_data, current_field, awaiting_confirmation, now) ==
    IF bot_manager.is_positive_response[user_input]
    THEN LET d == save_visitor_data(user_data, now)
         IN [raised |-> FALSE,
             user_data |-> d,
             result |-> [bot_response |-> "Fantastic! Your information has been successfully submitted. Thank you for visiting Operisoft at the Community Day event. We'll be in touch soon!",
                         new_state |-> "finished",
                         updated_data |-> d,
                         current_field |-> "",
                         awaiting_confirmation |-> FALSE],
             sink |-> << d >>]
    ELSE IF bot_manager.is_negative_response[user_input]
    THEN Return([bot_response |-> "No problem! Let's start fresh. What's your name?",
                 new_state |-> "collect_name",
                 updated_data |-> bot_manager.empty_user_data,
                 current_field |-> "name",
                 awaiting_confirmation |-> FALSE], user_data)
    ELSE Return([bot_response |-> "Should I submit your information? Please say yes to submit or no to start over.",
                 new_state |-> "final_confirmation",
                 updated_data |-> user_data,
                 current_field |-> "",
                 awaiting_confirmation |-> TRUE], user_data)

handle_final_confirmation(user_input, user_data, current_field, awaiting_confirmation, now) ==
    IF bot_manager.is_positive_response[user_input]
    THEN LET d == save_visitor_data(user_data, now)
         IN [raised |-> FALSE,
             user_data |-> d,
             result |-> [bot_response |-> "Fantastic! Your information has been successfully submitted. Thank you for visiting Operisoft at the Community Day event. We'll be in touch soon!",
                         new_state |-> "finished",
                         updated_data |-> d,
                         current_field |-> "",
                         awaiting_confirmation |-> FALSE],
             sink |-> << d >>]
    ELSE IF bot_manager.is_negative_response[user_input]
    THEN Return([bot_response |-> "No problem! Let's start fresh. What's your name?",
                 new_state |-> "collect_name",
                 updated_data |-> bot_manager.empty_user_data,
                 current_field |-> "name",
                 awaiting_confirmation |-> FALSE], user_data)
    ELSE Return([bot_response |-> "Should I submit your information? Please say yes to submit or no to start over.",
                 new_state |-> "final_confirmation",
                 updated_data |-> user_data,
                 current_field |-> "",
                 awaiting_confirmation |-> FALSE], user_data)

(* VoiceBotManager.process_conversation: conversation_states.get(state,
   handle_greeting).  env holds what the turn draws from outside: the reply
   random.choice picks and the time datetime.now() reads. *)
bot_process_conversation(user_input, state, user_data, current_field, awaiting_confirmation, env) ==
    CASE state = "greeting" ->
            handle_greeting(user_input, user_data, current_field, awaiting_confirmation, env.choice)
      [] state = "collect_name" ->
            handle_name_collection(user_input, user_data, current_field, awaiting_confirmation)
      [] state = "collect_company" ->
            handle_company_collection(user_input, user_data, current_field, awaiting_confirmation)
      [] state = "collect_email" ->
            handle_email_collection(user_input, user_data, current_field, awaiting_confirmation)
      [] state = "collect_phone" ->
            handle_phone_collection(user_input, user_data, current_field, awaiting_confirmation)
      [] state = "collect_country" ->
            handle_country_collection(user_input, user_data, current_field, awaiting_confirmation)
      [] state = "final_confirmation" ->
            handle_final_confirmation(user_input, user_data, current_field, awaiting_confirmation, env.now)
      [] OTHER ->
            handle_greeting(user_input, user_data, current_field, awaiting_confirmation, env.choice)

(***************************************************************************)
(* The HTTP routes.  A request body is a function from the keys it carries *)
(* to their values; a response is [status, body, sink].                    *)
(***************************************************************************)
(* data.get(k, default) *)
Get(data, k, default) == IF k \in DOMAIN data THEN data[k] ELSE default

(* POST /process_conversation without its try/except: a failure of the handler
   leaves the route as the server's own error response *)
process_conversation_unguarded(data, env) ==
    LET out == bot_process_conversation(Get(data, "user_input", ""),
                                        Get(data, "conversation_state", "greeting"),
                                        Get(data, "user_data", << >>),
                                        Get(data, "current_field", ""),
                                        Get(data, "awaiting_confirmation", FALSE), env)
    IN IF ~out.raised
       THEN [status |-> 200, body |-> out.result, sink |-> out.sink]
       ELSE [status |-> 500, body |-> [error |-> "Internal Server Error"], sink |-> out.sink]

(* POST /process_conversation *)
process_conversation(data, env) ==
    LET user_input == Get(data, "user_input", "")
        state == Get(data, "conversation_state", "greeting")
        user_data == Get(data, "user_data", << >>)
        current_field == Get(data, "current_field", "")
        awaiting_confirmation == Get(data, "awaiting_confirmation", FALSE)
        out == bot_process_conversation(user_input, state, user_data, current_field,
                                        awaiting_confirmation, env)
    IN IF ~out.raised
       THEN [status |-> 200, body |-> out.result, sink |-> out.sink]
       ELSE [status |-> 200,
             body |-> [bot_response |-> "I apologize, there was an error. Could you please repeat that?",
                       new_state |-> state,
                       updated_data |-> out.user_data,
                       current_field |-> current_field,
                       awaiting_confirmation |-> FALSE],
             sink |-> out.sink]

(* list.index: the position of field in Fields, 0 when it is not there *)
FieldIndex(field) ==
    IF field \in FieldSet THEN CHOOSE i \in 1..Len(Fields) : Fields[i] = field ELSE 0

ManualError == [status |-> 500, body |-> [error |-> "Failed to process manual input"], sink |-> << >>]

(* POST /manual_input that stores the value as it is typed *)
handle_manual_input_untrimmed(data) ==
    LET field == Get(data, "field", "")
        value == Get(data, "value", "")
        user_data == Get(data, "user_data", << >>)
    IN IF field # "" /\ Strip[value] # ""
       THEN LET d == Put(user_data, field, value)
                current_index == FieldIndex(field)
            IN IF current_index = 0 THEN ManualError
               ELSE IF current_index < Len(Fields)
               THEN LET next_field == Fields[current_index + 1]
                    IN [status |-> 200,
                        body |-> [bot_response |-> "Thank you! Now, what's your " \o next_field \o "?",
                                  new_state |-> "collect_" \o next_field,
                                  updated_data |-> d,
                                  current_field |-> next_field,
                                  awaiting_confirmation |-> FALSE],
                        sink |-> << >>]
               ELSE IF ~({"name", "company", "email", "phone"} \subseteq DOMAIN d) THEN ManualError
               ELSE [status |-> 200,
                     body |-> [bot_response |->
                                   "Perfect! Let me confirm: Name: " \o d["name"]
                                   \o ", Company: " \o d["company"]
                                   \o ", Email: " \o d["email"]
                                   \o ", Phone: " \o d["phone"]
                                   \o ". Should I submit this?",
                               new_state |-> "final_confirmation",
                               updated_data |-> d,
                               current_field |-> "",
                               awaiting_confirmation |-> FALSE],
                     sink |-> << >>]
       ELSE [status |-> 200,
             body |-> [bot_response |-> "Please enter a valid " \o field \o ".",
                       new_state |-> "collect_" \o field,
                       updated_data |-> user_data,
                       current_field |-> field,
                       awaiting_confirmation |-> FALSE],
             sink |-> << >>]

(* POST /manual_input that stores the blank value before it refuses it *)
handle_manual_input_blanks_field(data) ==
    LET field == Get(data, "field", "")
        value == Get(data, "value", "")
        user_data == Get(data, "user_data", << >>)
    IN IF field # "" /\ Strip[value] # ""
       THEN LET d == Put(user_data, field, Strip[value])
                current_index == FieldIndex(field)
            IN IF current_index = 0 THEN ManualError
               ELSE IF current_index < Len(Fields)
               THEN LET next_field == Fields[current_index + 1]
                    IN [status |-> 200,
                        body |-> [bot_response |-> "Thank you! Now, what's your " \o next_field \o "?",
                                  new_state |-> "collect_" \o next_field,
                                  updated_data |-> d,
                                  current_field |-> next_field,
                                  awaiting_confirmation |-> FALSE],
                        sink |-> << >>]
               ELSE IF ~({"name", "company", "email", "phone"} \subseteq DOMAIN d) THEN ManualError
               ELSE [status |-> 200,
                     body |-> [bot_response |->
                                   "Perfect! Let me confirm: Name: " \o d["name"]
                                   \o ", Company: " \o d["company"]
                                   \o ", Email: " \o d["email"]
                                   \o ", Phone: " \o d["phone"]
                                   \o ". Should I submit this?",
                               new_state |-> "final_confirmation",
                               updated_data |-> d,
                               current_field |-> "",
                               awaiting_confirmation |-> FALSE],
                     sink |-> << >>]
       ELSE [status |-> 200,
             body |-> [bot_response |-> "Please enter a valid " \o field \o ".",
                       new_state |-> "collect_" \o field,
                       updated_data |-> Put(user_data, field, ""),
                       current_field |-> field,
                       awaiting_confirmation |-> FALSE],
             sink |-> << >>]

(* POST /manual_input *)
handle_manual_input(data) ==
    LET field == Get(data, "field", "")
        value == Get(data, "value", "")
        user_data == Get(data, "user_data", << >>)
    IN IF field # "" /\ Strip[value] # ""
       THEN LET d == Put(user_data, field, Strip[value])
                current_index == FieldIndex(field)
            IN IF current_index = 0 THEN ManualError
               ELSE IF current_index < Len(Fields)
               THEN LET next_field == Fields[current_index + 1]
                    IN [status |-> 200,
                        body |-> [bot_response |-> "Thank you! Now, what's your " \o next_field \o "?",
                                  new_state |-> "collect_" \o next_field,
                                  updated_data |-> d,
                                  current_field |-> next_field,
                                  awaiting_confirmation |-> FALSE],
                        sink |-> << >>]
               ELSE IF ~({"name", "company", "email", "phone"} \subseteq DOMAIN d) THEN ManualError
               ELSE [status |-> 200,
                     body |-> [bot_response |->
                                   "Perfect! Let me confirm: Name: " \o d["name"]
                                   \o ", Company: " \o d["company"]
                                   \o ", Email: " \o d["email"]
                                   \o ", Phone: " \o d["phone"]
                                   \o ". Should I submit this?",
                               new_state |-> "final_confirmation",
                               updated_data |-> d,
                               current_field |-> "",
                               awaiting_confirmation |-> FALSE],
                     sink |-> << >>]
       ELSE [status |-> 200,
             body |-> [bot_response |-> "Please enter a valid " \o field \o ".",
                       new_state |-> "collect_" \o field,
                       updated_data |-> user_data,
                       current_field |-> field,
                       awaiting_confirmation |-> FALSE],
             sink |-> << >>]

(***************************************************************************)
(* The session: what the caller holds and feeds back, turn after turn      *)
(***************************************************************************)
(* what the visitor may type into the manual-input box *)
ManualValues == { "", "  ", " India " }

(* what the visitor of a session types: nothing, or a value with spaces around it *)
Typed == { "", " India " }

(* what datetime.now().strftime(...) may give *)
Timestamps == { "2024-01-01 10:00:00" }

(* what a turn draws from outside: the reply random.choice picks and the clock *)
Envs == [choice : OffTopicReplies, now : Timestamps]

(* random.choice is called by handle_greeting alone, and handle_greeting handles
   greeting and every state that has no handler of its own: elsewhere nothing is
   drawn, and one reply stands for the draw that is not made *)
Drawn(st) ==
    IF st \in {"collect_name", "collect_company", "collect_email", "collect_phone",
               "collect_country", "final_confirmation"}
    THEN {e \in Envs : e.choice = CHOOSE c \in OffTopicReplies : TRUE}
    ELSE Envs

(* how many calls of save_visitor_data a session is followed through *)
MaxSaves == 2

VARIABLES
    state,                  \* conversation_state the caller holds
    user_data,              \* the record the caller holds
    current_field,
    awaiting_confirmation,
    request,                \* the last request sent, without the record it carried
    response,               \* the last response: [status, body, sink]
    sink_calls,             \* calls of save_visitor_data so far
    script                  \* how many turns of the happy path the session has been, or OffScript

(* how many requests the server handles at a time, each in a thread of its own *)
MaxThreads == 2

Threads == 1..MaxThreads

(* the file at EXCEL_FILE: whether os.path.exists finds it, whether
   pd.read_excel can read it, and the rows it holds when it can *)
Absent == [exists |-> FALSE, readable |-> FALSE, rows |-> << >>]
Corrupt == [exists |-> TRUE, readable |-> FALSE, rows |-> << >>]
Sheet(rows) == [exists |-> TRUE, readable |-> TRUE, rows |-> rows]

(* a thread that has no request: its place in the code, the locals of
   save_visitor_data, the exception in flight, what it has logged, what
   to_excel has written and the response it has sent *)
Idle ==
    [pc |-> "idle", user_data |-> << >>, now |-> "", df_new |-> << >>, df_combined |-> << >>,
     unreadable |-> FALSE, e |-> Nothing, logged |-> << >>, written |-> Nothing,
     out |-> [status |-> 0, body |-> << >>, sink |-> << >>]]

VARIABLES
    EXCEL_FILE,             \* the file the sink keeps
    pandas_errors,          \* the exception classes pd.errors of the installed pandas has
    thread                  \* the threads of the server, each in a request of its own

(* two callers of the one server, each holding a session of its own *)
Sessions == { 1, 2 }

(* how many turns each of the two sessions is followed through *)
MaxHeard == 2

(* what a caller holds at the start of a session, and what it has said since *)
NewSession ==
    [start |-> "greeting", state |-> "greeting", user_data |-> empty_user_data,
     current_field |-> "", awaiting_confirmation |-> FALSE, heard |-> << >>]

VARIABLE session            \* the two sessions, as their callers hold them

vars ==
    << bot_manager, state, user_data, current_field, awaiting_confirmation, request, response,
       sink_calls, script, EXCEL_FILE, pandas_errors, thread, session >>

(* the happy path: what the visitor says at each of its turns *)
HappyPath ==
    << {"good"}, Told.name, {"yes"}, Told.company, {"yes"}, Told.email, {"yes"},
       Told.phone, {"yes"}, Told.country, {"yes"}, {"yes"} >>

OffScript == Len(HappyPath) + 1

(* the session stays on the happy path as long as each turn says what the path says *)
Follow(u) ==
    script' = IF script < Len(HappyPath) /\ u \in HappyPath[script + 1]
              THEN script + 1 ELSE OffScript

NoRequest == [op |-> "none"]
NoResponse == [status |-> 0, body |-> << >>, sink |-> << >>]

Init ==
    /\ bot_manager = VoiceBotManager
    /\ state = "greeting"
    /\ user_data = empty_user_data
    /\ current_field = ""
    /\ awaiting_confirmation = FALSE
    /\ request = NoRequest
    /\ response = NoResponse
    /\ sink_calls = 0
    /\ script = 0
    /\ EXCEL_FILE = Absent
    /\ pandas_errors = {"EmptyDataError"}
    /\ thread = [t \in Threads |-> Idle]
    /\ session = [s \in Sessions |-> NewSession]

(* the caller takes the turn output as its next turn input, and keeps what it
   holds when the request fails *)
Adopt(r) ==
    IF r.status = 200
    THEN /\ state' = r.body.new_state
         /\ user_data' = r.body.updated_data
         /\ current_field' = r.body.current_field
         /\ awaiting_confirmation' = r.body.awaiting_confirmation
    ELSE UNCHANGED << state, user_data, current_field, awaiting_confirmation >>

TurnRequest(u) ==
    [user_input |-> u, conversation_state |-> state, user_data |-> user_data,
     current_field |-> current_field, awaiting_confirmation |-> awaiting_confirmation]

(* one POST /process_conversation and the caller's update from its response *)
Turn(u, env) ==
    \E r \in {process_conversation(TurnRequest(u), env)} :
       /\ request' = [op |-> "turn", user_input |-> u, conversation_state |-> state,
                      awaiting_confirmation |-> awaiting_confirmation]
       /\ response' = r
       /\ Adopt(r)
       /\ sink_calls' = sink_calls + Len(r.sink)
       /\ Follow(u)

(* one POST /manual_input and the caller's update from its response *)
Manual(f, v) ==
    \E r \in {handle_manual_input([field |-> f, value |-> v, user_data |-> user_data])} :
       /\ request' = [op |-> "manual", field |-> f, value |-> v]
       /\ response' = r
       /\ Adopt(r)
       /\ UNCHANGED sink_calls
       /\ script' = OffScript

CollectStates == {"collect_" \o f : f \in FieldSet}

(* what a visitor says in reply to the prompt of a state: nothing, an answer to
   the question asked, or "no" *)
Visitor(st, awaiting) ==
    IF st \in CollectStates
    THEN (IF awaiting THEN Silence \cup YesNo
          ELSE Silence \cup {"no"} \cup Told[SubSeq(st, Len("collect_") + 1, Len(st))]
               \cup (IF st = "collect_phone" THEN Garbled ELSE {}))
    ELSE IF st = "final_confirmation" THEN Silence \cup YesNo
    ELSE Silence \cup Moods

Next ==
    /\ sink_calls < MaxSaves
    /\ UNCHANGED << bot_manager, EXCEL_FILE, pandas_errors, thread, session >>
    /\ \/ \E u \in Visitor(state, awaiting_confirmation), env \in Drawn(state) : Turn(u, env)
       \/ \E f \in FieldSet, v \in Typed : Manual(f, v)

Spec == Init /\ [][Next]_vars

(***************************************************************************)
(* Any one request: the caller of POST /process_conversation is free to    *)
(* send any state name, any record and any flag, or to leave them out.     *)
(***************************************************************************)
StateNames ==
    { "greeting", "collect_name", "collect_company", "collect_email", "collect_phone",
      "collect_country", "final_confirmation", "finished" }

(* records a request may carry: complete, partly filled, and lacking keys *)
AnyRecords ==
    { empty_user_data,
      << >>,
      [name |-> "John"],
      [name |-> "John", company |-> "Acme", email |-> "john@gmail.com"],
      [name |-> "John", company |-> "Acme", email |-> "john@gmail.com", phone |-> "9876543210"],
      [name |-> "John", company |-> "Acme", email |-> "john@gmail.com", phone |-> "9876543210",
       country |-> "India"],
      [phone |-> "9876543210", country |-> "India"] }

RequestKeys ==
    { "user_input", "conversation_state", "user_data", "current_field", "awaiting_confirmation" }

(* the request bodies: every choice of values, with any one key left out or none *)
AnyRequests ==
    { [k \in keys |-> full[k]] :
        full \in [user_input : Utterances,
                  conversation_state : StateNames \cup {"bogus"},
                  user_data : AnyRecords,
                  current_field : {""},
                  awaiting_confirmation : BOOLEAN],
        keys \in {RequestKeys} \cup {RequestKeys \ {k} : k \in RequestKeys} }

(* one POST /process_conversation with any body, as the first request of a caller *)
AnyTurn(data, env) ==
    \E r \in {process_conversation(data, env)} :
       /\ request' = [op |-> "turn",
                      user_input |-> Get(data, "user_input", ""),
                      conversation_state |-> Get(data, "conversation_state", "greeting"),
                      user_data |-> Get(data, "user_data", << >>),
                      awaiting_confirmation |-> Get(data, "awaiting_confirmation", FALSE)]
       /\ response' = r
       /\ Adopt(r)
       /\ sink_calls' = sink_calls + Len(r.sink)
       /\ script' = OffScript
       /\ UNCHANGED bot_manager

(* records with the five fields, each empty or filled *)
FilledRecord ==
    [name |-> "John", company |-> "Acme", email |-> "john@gmail.com", phone |-> "9876543210",
     country |-> "India"]

FiveFieldRecords ==
    { [f \in FieldSet |-> IF f \in filled THEN FilledRecord[f] ELSE ""] :
        filled \in SUBSET FieldSet }

ManualKeys == { "field", "value", "user_data" }

(* the bodies of POST /manual_input: every choice of values, a field that is
   none of the five included, with any one key left out or none *)
AnyManualRequests ==
    { [k \in keys |-> full[k]] :
        full \in [field : FieldSet \cup {"age"},
                  value : ManualValues,
                  user_data : AnyRecords \cup FiveFieldRecords],
        keys \in {ManualKeys} \cup {ManualKeys \ {k} : k \in ManualKeys} }

(* one POST /manual_input with any body, as the first request of a caller; the
   request is kept with the record it carried *)
AnyManual(data) ==
    \E r \in {handle_manual_input(data)} :
       /\ request' = [op |-> "manual",
                      field |-> Get(data, "field", ""),
                      value |-> Get(data, "value", ""),
                      user_data |-> Get(data, "user_data", << >>)]
       /\ response' = r
       /\ Adopt(r)
       /\ script' = OffScript
       /\ UNCHANGED << bot_manager, sink_calls >>

NextAny ==
    /\ request = NoRequest
    /\ UNCHANGED << EXCEL_FILE, pandas_errors, thread, session >>
    /\ \/ \E data \in AnyRequests, env \in Envs : AnyTurn(data, env)
       \/ \E data \in AnyManualRequests : AnyManual(data)

SpecAny == Init /\ [][NextAny]_vars

(***************************************************************************)
(* The record sink: save_visitor_data step by step, as the threads of the  *)
(* server run it, each for the last "yes" of a visitor of its own, on the  *)
(* one file at EXCEL_FILE.  A place in the code is named by its line.      *)
(***************************************************************************)
Visitors == << "John", "Mary", "Ravi", "Anna" >>

(* the record the visitor of thread t has confirmed *)
ConfirmedRecord(t) == Put(FilledRecord, "name", Visitors[t])

(* a row saved before the server was started *)
OldRow == save_visitor_data(Put(FilledRecord, "name", "Asha"), "2023-12-31 09:00:00")

(* the file as the server may find it *)
Stores == { Absent, Corrupt, Sheet(<< >>), Sheet(<< OldRow >>) }

(* what pd.read_excel raises on a file it cannot read *)
ReadErrors == { "EmptyDataError", "BadZipFile", "ValueError" }

(* what df.to_excel raises when the file cannot be written *)
WriteErrors == { "PermissionError" }

(* pd.errors of the pandas that is installed: with or without the class
   ExcelFileError that line 627 names *)
PandasVersions == { {"EmptyDataError"}, {"EmptyDataError", "ExcelFileError"} }

(* line 627, when read_excel has raised e: the exception that leaves the inner
   try.  Naming a class pd.errors does not have raises AttributeError; an
   exception of a class the clause names is caught; any other goes on. *)
inner_except(e, errors) ==
    IF ~({"EmptyDataError", "ExcelFileError"} \subseteq errors) THEN Just("AttributeError")
    ELSE IF e \in {"EmptyDataError", "ExcelFileError"} THEN Nothing
    ELSE Just(e)

(* lines 636-637 with a raise after the logger call *)
outer_except_reraises(e) ==
    [logged |-> [level |-> "error", e |-> e], e |-> Just(e)]

(* lines 636-637: the exception is logged and goes no further *)
outer_except(e) ==
    [logged |-> [level |-> "error", e |-> e], e |-> Nothing]

(* the request of the last "yes" *)
LastYes(t) ==
    [user_input |-> "yes", conversation_state |-> "final_confirmation",
     user_data |-> ConfirmedRecord(t), current_field |-> "", awaiting_confirmation |-> FALSE]

(* lines 649-658 and 400-401: the route reads the request and
   handle_final_confirmation calls save_visitor_data *)
Receive(t) ==
    /\ thread[t].pc = "idle"
    /\ thread' = [thread EXCEPT ![t].pc = "l618", ![t].user_data = ConfirmedRecord(t)]
    /\ UNCHANGED EXCEL_FILE

(* lines 618-621 *)
Stamp(t, now) ==
    /\ thread[t].pc = "l618"
    /\ thread' = [thread EXCEPT ![t].pc = "l623",
                                ![t].now = now,
                                ![t].user_data = save_visitor_data(thread[t].user_data, now),
                                ![t].df_new = << save_visitor_data(thread[t].user_data, now) >>]
    /\ UNCHANGED EXCEL_FILE

(* lines 623 and 630-631 *)
Exists(t) ==
    /\ thread[t].pc = "l623"
    /\ thread' = IF EXCEL_FILE.exists
                 THEN [thread EXCEPT ![t].pc = "l625"]
                 ELSE [thread EXCEPT ![t].pc = "l633", ![t].df_combined = thread[t].df_new]
    /\ UNCHANGED EXCEL_FILE

(* lines 625-626 *)
Read(t) ==
    /\ thread[t].pc = "l625"
    /\ EXCEL_FILE.readable
    /\ thread' = [thread EXCEPT ![t].pc = "l633",
                                ![t].df_combined = EXCEL_FILE.rows \o thread[t].df_new]
    /\ UNCHANGED EXCEL_FILE

(* lines 625 and 627-629: read_excel raises e *)
ReadRaises(t, e) ==
    /\ thread[t].pc = "l625"
    /\ ~EXCEL_FILE.readable
    /\ thread' = IF inner_except(e, pandas_errors) = Nothing
                 THEN [thread EXCEPT ![t].pc = "l633",
                                     ![t].unreadable = TRUE,
                                     ![t].logged = Append(@, [level |-> "warning", e |-> e]),
                                     ![t].df_combined = thread[t].df_new]
                 ELSE [thread EXCEPT ![t].pc = "l636",
                                     ![t].unreadable = TRUE,
                                     ![t].e = inner_except(e, pandas_errors)]
    /\ UNCHANGED EXCEL_FILE

(* lines 633-634 *)
Write(t) ==
    /\ thread[t].pc = "l633"
    /\ EXCEL_FILE' = Sheet(thread[t].df_combined)
    /\ thread' = [thread EXCEPT ![t].pc = "l402",
                                ![t].written = Just(thread[t].df_combined),
                                ![t].logged = Append(@, [level |-> "info", e |-> ""])]

(* line 633: to_excel raises e *)
WriteRaises(t, e) ==
    /\ thread[t].pc = "l633"
    /\ thread' = [thread EXCEPT ![t].pc = "l636", ![t].e = Just(e)]
    /\ UNCHANGED EXCEL_FILE

(* lines 636-637 *)
Except(t) ==
    /\ thread[t].pc = "l636"
    /\ thread' = [thread EXCEPT ![t].pc = "l402",
                                ![t].logged = Append(@, outer_except(thread[t].e[1]).logged),
                                ![t].e = outer_except(thread[t].e[1]).e]
    /\ UNCHANGED EXCEL_FILE

(* lines 402-408 and 660-671: the response of the turn, or the apology of the
   route when an exception has come out of save_visitor_data *)
Reply(t, env) ==
    /\ thread[t].pc = "l402"
    /\ env.now = thread[t].now
    /\ \E r \in {process_conversation(LastYes(t), env)} :
          thread' = [thread EXCEPT
                        ![t].pc = "done",
                        ![t].e = Nothing,
                        ![t].out =
                            IF thread[t].e = Nothing THEN r
                            ELSE [status |-> 200,
                                  body |-> [bot_response |-> "I apologize, there was an error. Could you please repeat that?",
                                            new_state |-> "final_confirmation",
                                            updated_data |-> thread[t].user_data,
                                            current_field |-> "",
                                            awaiting_confirmation |-> FALSE],
                                  sink |-> r.sink]]
    /\ UNCHANGED EXCEL_FILE

InitSink ==
    /\ bot_manager = VoiceBotManager
    /\ state = "final_confirmation"
    /\ user_data = FilledRecord
    /\ current_field = ""
    /\ awaiting_confirmation = FALSE
    /\ request = NoRequest
    /\ response = NoResponse
    /\ sink_calls = 0
    /\ script = OffScript
    /\ EXCEL_FILE \in Stores
    /\ pandas_errors \in PandasVersions
    /\ thread = [t \in Threads |-> Idle]
    /\ session = [s \in Sessions |-> NewSession]

NextSink ==
    /\ UNCHANGED << bot_manager, state, user_data, current_field, awaiting_confirmation,
                    request, response, sink_calls, script, pandas_errors, session >>
    /\ \E t \in Threads :
          \/ Receive(t)
          \/ \E now \in Timestamps : Stamp(t, now)
          \/ Exists(t)
          \/ Read(t)
          \/ \E e \in ReadErrors : ReadRaises(t, e)
          \/ Write(t)
          \/ \E e \in WriteErrors : WriteRaises(t, e)
          \/ Except(t)
          \/ \E env \in Drawn("final_confirmation") : Reply(t, env)

SpecSink == InitSink /\ [][NextSink]_vars

(***************************************************************************)
(* Two sessions on the one bot_manager, their turns interleaved in any     *)
(* order.  A session starts where a caller may be: at greeting, at the     *)
(* confirmation of the country, or at final_confirmation.                  *)
(***************************************************************************)
StartPoints ==
    { NewSession,
      [start |-> "collect_country", state |-> "collect_country", user_data |-> FilledRecord,
       current_field |-> "country", awaiting_confirmation |-> TRUE, heard |-> << >>],
      [start |-> "final_confirmation", state |-> "final_confirmation", user_data |-> FilledRecord,
       current_field |-> "", awaiting_confirmation |-> FALSE, heard |-> << >>] }

(* a turn that keeps the record it restarts from as the template of the bot *)
bot_manager_after_keeps_record(self, data, r) ==
    IF Get(data, "conversation_state", "greeting") = "final_confirmation"
       /\ r.body.new_state = "collect_name"
    THEN [self EXCEPT !.empty_user_data = Get(data, "user_data", << >>)]
    ELSE self

(* the VoiceBotManager object after a turn: no handler assigns an attribute of
   self, every write of a handler goes to the dict of the request, and line 415
   hands out a copy of empty_user_data, not the template itself *)
bot_manager_after(self, data, r) == self

(* the request of session s saying u *)
SessionRequest(s, u) ==
    [user_input |-> u,
     conversation_state |-> session[s].state,
     user_data |-> session[s].user_data,
     current_field |-> session[s].current_field,
     awaiting_confirmation |-> session[s].awaiting_confirmation]

(* one turn of session s: POST /process_conversation, and the caller's update *)
SessionTurn(s, u, env) ==
    /\ Len(session[s].heard) < MaxHeard
    /\ \E r \in {process_conversation(SessionRequest(s, u), env)} :
          /\ session' = [session EXCEPT ![s] =
                            [start |-> session[s].start,
                             state |-> r.body.new_state,
                             user_data |-> r.body.updated_data,
                             current_field |-> r.body.current_field,
                             awaiting_confirmation |-> r.body.awaiting_confirmation,
                             heard |-> Append(session[s].heard, << u, env.now >>)]]
          /\ bot_manager' = bot_manager_after(bot_manager, SessionRequest(s, u), r)

InitPair ==
    /\ bot_manager = VoiceBotManager
    /\ state = "greeting"
    /\ user_data = empty_user_data
    /\ current_field = ""
    /\ awaiting_confirmation = FALSE
    /\ request = NoRequest
    /\ response = NoResponse
    /\ sink_calls = 0
    /\ script = OffScript
    /\ EXCEL_FILE = Absent
    /\ pandas_errors = {"EmptyDataError"}
    /\ thread = [t \in Threads |-> Idle]
    /\ session \in [Sessions -> StartPoints]

NextPair ==
    /\ UNCHANGED << state, user_data, current_field, awaiting_confirmation, request, response,
                    sink_calls, script, EXCEL_FILE, pandas_errors, thread >>
    /\ \E s \in Sessions :
          \E u \in Visitor(session[s].state, session[s].awaiting_confirmation),
             env \in Envs : SessionTurn(s, u, env)

SpecPair == InitPair /\ [][NextPair]_vars

(***************************************************************************)
(* Properties                                                              *)
(***************************************************************************)
Apology == "I apologize, there was an error. Could you please repeat that?"

(* a Turn Output: a reply, a state name, a record, the next field and the flag *)
WellFormedTurnOutput(r) ==
    /\ r.status = 200
    /\ { "bot_response", "new_state", "updated_data", "current_field",
         "awaiting_confirmation" } \subseteq DOMAIN r.body
    /\ r.body.bot_response \in STRING
    /\ r.body.bot_response # ""
    /\ r.body.new_state \in STRING
    /\ DOMAIN r.body.updated_data \subseteq STRING
    /\ \A f \in DOMAIN r.body.updated_data : r.body.updated_data[f] \in STRING
    /\ r.body.current_field \in STRING
    /\ r.body.awaiting_confirmation \in BOOLEAN

(* C1: the turn is total.  Whatever state name (named or unknown), utterance
   (the empty one included), flag and record (complete, partial or empty of
   keys) a request carries or leaves out, POST /process_conversation answers
   with a well-formed Turn Output, never with a failure of the server. *)
C1_TurnIsTotal == request.op = "turn" => WellFormedTurnOutput(response)

(* a confirmation of the name on a record that has no name: the handler fails on
   the absent key and the route answers with the apology *)
C1_Witness ==
    /\ request.op = "turn"
    /\ request.conversation_state = "collect_name"
    /\ request.awaiting_confirmation
    /\ request.user_input = "yes"
    /\ response.body.bot_response = Apology
    /\ "name" \notin DOMAIN response.body.updated_data
    /\ WellFormedTurnOutput(response)

(* the classification a handler acts on: the affirmative list is tried first *)
Affirmative(u) == bot_manager.is_positive_response[u]
Negative(u) == ~bot_manager.is_positive_response[u] /\ bot_manager.is_negative_response[u]

(* the field a collecting state collects *)
FieldOf(st) == SubSeq(st, Len("collect_") + 1, Len(st))

(* C2: over a session in which each turn output is fed back as the next input,
   the record is handed to the sink exactly once, in the turn where
   final_confirmation receives an affirmative response: never twice, never in
   another turn, and a finished session has made its one call. *)
C2_SinkExactlyOnce ==
    /\ sink_calls <= 1
    /\ response.sink # << >> =>
           /\ request.op = "turn"
           /\ request.conversation_state = "final_confirmation"
           /\ Affirmative(request.user_input)
    /\ state = "finished" => sink_calls = 1

(* the validation rule of each field, as its extractor applies it *)
ValidField(f, v) ==
    CASE f = "name" -> Len(v) >= 2 /\ Len(v) <= 50 /\ AllIn[v, AlphaSet \cup SpaceSet]
      [] f = "company" -> Len(v) >= 2 /\ Len(v) <= 100
      [] f = "email" -> StrictEmail[v]
      [] f = "phone" -> validate_phone(v)
      [] f = "country" -> Len(v) >= 2 /\ Len(v) <= 50

(* C3: in every output whose new_state is final_confirmation, of a spoken turn
   or of a manual correction, all five fields of the record are non-empty and
   each satisfies the validation rule of its field. *)
C3_FinalConfirmationRecordValid ==
    (response.status = 200 /\ response.body.new_state = "final_confirmation") =>
        \A f \in FieldSet :
            /\ f \in DOMAIN response.body.updated_data
            /\ response.body.updated_data[f] # ""
            /\ ValidField(f, response.body.updated_data[f])

StateOrder ==
    << "greeting", "collect_name", "collect_company", "collect_email", "collect_phone",
       "collect_country", "final_confirmation", "finished" >>

Rank(st) == CHOOSE i \in 1..Len(StateOrder) : StateOrder[i] = st

(* C4: in the order greeting < collect_name < ... < final_confirmation <
   finished, the new_state of every turn is at or after its input state, but for
   a negative response at final_confirmation, which returns to collect_name with
   all fields reset; a negative response to a confirmation in a collecting state
   stays in that state with the field cleared. *)
C4_ForwardOnly ==
    request.op = "turn" =>
        IF request.conversation_state = "final_confirmation" /\ Negative(request.user_input)
        THEN /\ response.body.new_state = "collect_name"
             /\ \A f \in FieldSet : response.body.updated_data[f] = ""
        ELSE /\ Rank(response.body.new_state) >= Rank(request.conversation_state)
             /\ ( /\ request.conversation_state \in CollectStates
                  /\ request.awaiting_confirmation
                  /\ Negative(request.user_input) ) =>
                     /\ response.body.new_state = request.conversation_state
                     /\ response.body.updated_data[FieldOf(request.conversation_state)] = ""

(* C5: from a collecting state with a value awaiting confirmation, "no" answered
   in consecutive turns keeps the state, leaves the field empty after each of
   these turns and changes no other field; stated for the first "no" and for the
   "no" that follows it. *)
C5_RepeatedNo ==
    [][ ( /\ state \in CollectStates
          /\ request'.op = "turn"
          /\ request'.user_input = "no"
          /\ \/ awaiting_confirmation
             \/ /\ request.op = "turn"
                /\ request.user_input = "no"
                /\ request.conversation_state = state
                /\ request.awaiting_confirmation ) =>
        ( /\ state' = state
          /\ user_data'[FieldOf(state)] = ""
          /\ \A f \in FieldSet \ {FieldOf(state)} : user_data'[f] = user_data[f] ) ]_vars

(* C6: every turn that enters final_confirmation, by an affirmative
   confirmation of the country or by manual entry of the country, returns a
   bot_response that contains all five values of the returned record. *)
C6_SummaryRestatesAllFive ==
    ( /\ response.status = 200
      /\ response.body.new_state = "final_confirmation"
      /\ \/ request.op = "turn" /\ request.conversation_state = "collect_country"
         \/ request.op = "manual" /\ request.field = "country" ) =>
        \A f \in FieldSet :
            Contains[response.body.bot_response, response.body.updated_data[f]]

(* an affirmative answer to "is your country ... correct?" is being given *)
CountryConfirmed ==
    /\ state = "collect_country"
    /\ awaiting_confirmation
    /\ request'.op = "turn"
    /\ Affirmative(request'.user_input)

InCountryCodeTable(country) == Lower[country] \in DOMAIN country_codes

(* C7 as claimed: on an affirmative response at collect_country with a value
   awaiting confirmation, the returned phone is the calling code of the record's
   country followed by the old phone when the country, compared without regard
   to case, is in the table and the old phone does not start with '+'; in every
   other case the phone is unchanged. *)
C7_AsClaimed ==
    [][ CountryConfirmed =>
            user_data'["phone"] =
                IF InCountryCodeTable(user_data["country"]) /\ ~StartsWith[user_data["phone"], "+"]
                THEN country_codes[Lower[user_data["country"]]] \o user_data["phone"]
                ELSE user_data["phone"] ]_vars

(* C7: on an affirmative response at collect_country with a value awaiting
   confirmation, the returned phone is the calling code of the record's country
   followed by the old phone when the country, compared without regard to case,
   is in the table and the old phone is not empty and does not start with '+';
   in every other case (phone empty, phone starting with '+', country not in
   the table) the phone is unchanged. *)
C7_PhoneGetsCallingCode ==
    [][ CountryConfirmed =>
            user_data'["phone"] =
                IF /\ InCountryCodeTable(user_data["country"])
                   /\ user_data["phone"] # ""
                   /\ ~StartsWith[user_data["phone"], "+"]
                THEN country_codes[Lower[user_data["country"]]] \o user_data["phone"]
                ELSE user_data["phone"] ]_vars

(* India has just been confirmed and the phone has its calling code *)
C7_Witness ==
    /\ request.op = "turn"
    /\ request.conversation_state = "collect_country"
    /\ request.awaiting_confirmation
    /\ Affirmative(request.user_input)
    /\ state = "final_confirmation"
    /\ user_data["country"] = "India"
    /\ user_data["phone"] = "+91987654321098765"

(* the state after each turn of the happy path *)
HappyStates ==
    << "greeting", "collect_name", "collect_name", "collect_company", "collect_company",
       "collect_email", "collect_email", "collect_phone", "collect_phone",
       "collect_country", "collect_country", "final_confirmation", "finished" >>

(* C8: the happy path (a positive mood word, then for each of name, company,
   email, phone, country a value its extractor accepts followed by "yes", then a
   last "yes") goes through greeting, collect_name, collect_company,
   collect_email, collect_phone, collect_country, final_confirmation in that
   order, ends in finished, and calls the sink once, in its last turn. *)
C8_HappyPath ==
    script <= Len(HappyPath) =>
        /\ state = HappyStates[script + 1]
        /\ sink_calls = IF script = Len(HappyPath) THEN 1 ELSE 0
        /\ script = Len(HappyPath) => Len(response.sink) = 1

(* the happy path has been gone through to its end *)
C8_Witness ==
    /\ script = Len(HappyPath)
    /\ state = "finished"
    /\ sink_calls = 1
    /\ request.conversation_state = "final_confirmation"

(* C9: a negative response at final_confirmation returns collect_name with a
   record whose five fields are all empty and which holds nothing else, so that
   no value of the record before survives, with awaiting_confirmation false and
   without a call of the sink. *)
C9_NegativeAtFinalResets ==
    [][ ( /\ state = "final_confirmation"
          /\ request'.op = "turn"
          /\ Negative(request'.user_input) ) =>
        ( /\ response'.status = 200
          /\ response'.body.new_state = "collect_name"
          /\ DOMAIN response'.body.updated_data = FieldSet
          /\ \A f \in FieldSet : response'.body.updated_data[f] = ""
          /\ response'.body.awaiting_confirmation = FALSE
          /\ response'.sink = << >>
          /\ sink_calls' = sink_calls ) ]_vars

(* final_confirmation has just been answered "no" *)
C9_Witness ==
    /\ request.op = "turn"
    /\ request.conversation_state = "final_confirmation"
    /\ request.user_input = "no"
    /\ state = "collect_name"
    /\ user_data = empty_user_data
    /\ sink_calls = 0

(* the state that follows a collecting state *)
NextState(st) == StateOrder[Rank(st) + 1]

(* C10: in a collecting state with a value awaiting confirmation, an
   affirmative input returns the next state in the order name, company, email,
   phone, country, final_confirmation, with awaiting_confirmation false, and
   leaves every field of the record as it was, but that the affirmative at
   collect_country may rewrite the phone. *)
C10_AffirmativeAdvances ==
    [][ ( /\ state \in CollectStates
          /\ awaiting_confirmation
          /\ request'.op = "turn"
          /\ Affirmative(request'.user_input) ) =>
        ( /\ response'.status = 200
          /\ response'.body.new_state = NextState(state)
          /\ response'.body.awaiting_confirmation = FALSE
          /\ DOMAIN response'.body.updated_data = DOMAIN user_data
          /\ \A f \in DOMAIN user_data :
                 \/ response'.body.updated_data[f] = user_data[f]
                 \/ state = "collect_country" /\ f = "phone" ) ]_vars

(* a name has just been confirmed *)
C10_Witness ==
    /\ request.op = "turn"
    /\ request.conversation_state = "collect_name"
    /\ request.awaiting_confirmation
    /\ request.user_input = "yes"
    /\ state = "collect_company"
    /\ user_data["name"] = "John"
    /\ ~awaiting_confirmation

(* the response to the request being made is a Turn Output for a record that
   differs from the caller's in field f at most *)
OthersUnchanged(f) ==
    /\ DOMAIN response'.body.updated_data = DOMAIN user_data
    /\ \A g \in DOMAIN user_data \ {f} : response'.body.updated_data[g] = user_data[g]

(* C11: in a collecting state with a value awaiting confirmation, an input
   classified negative and not affirmative returns the same collecting state,
   awaiting_confirmation false, show_manual_input true and manual_field equal
   to the field, with the field empty and the other four fields unchanged. *)
C11_NegativeClearsField ==
    [][ ( /\ state \in CollectStates
          /\ awaiting_confirmation
          /\ request'.op = "turn"
          /\ Negative(request'.user_input) ) =>
        ( /\ response'.status = 200
          /\ response'.body.new_state = state
          /\ response'.body.awaiting_confirmation = FALSE
          /\ "show_manual_input" \in DOMAIN response'.body
          /\ response'.body.show_manual_input = TRUE
          /\ response'.body.manual_field = FieldOf(state)
          /\ response'.body.updated_data[FieldOf(state)] = ""
          /\ OthersUnchanged(FieldOf(state)) ) ]_vars

(* an e-mail has just been refused *)
C11_Witness ==
    /\ request.op = "turn"
    /\ request.conversation_state = "collect_email"
    /\ request.awaiting_confirmation
    /\ request.user_input = "no"
    /\ state = "collect_email"
    /\ user_data["email"] = ""
    /\ user_data["name"] = "John"
    /\ response.body.manual_field = "email"

(* the input is on neither list *)
Neither(u) == ~bot_manager.is_positive_response[u] /\ ~bot_manager.is_negative_response[u]

(* C12: an input that is neither affirmative nor negative leaves the dialogue
   where it is: in a collecting state with a value awaiting confirmation it
   returns the same state, the record unchanged and awaiting_confirmation still
   true; in final_confirmation it returns final_confirmation with the record
   unchanged and no call of the sink. *)
C12_NeitherStays ==
    [][ ( /\ request'.op = "turn"
          /\ Neither(request'.user_input)
          /\ \/ state \in CollectStates /\ awaiting_confirmation
             \/ state = "final_confirmation" ) =>
        ( /\ response'.status = 200
          /\ response'.body.new_state = state
          /\ response'.body.updated_data = user_data
          /\ state \in CollectStates => response'.body.awaiting_confirmation = TRUE
          /\ state = "final_confirmation" => response'.sink = << >> /\ sink_calls' = sink_calls ) ]_vars

(* "is your name correct?" has just been answered with nothing *)
C12_Witness ==
    /\ request.op = "turn"
    /\ request.conversation_state = "collect_name"
    /\ request.awaiting_confirmation
    /\ request.user_input = ""
    /\ state = "collect_name"
    /\ awaiting_confirmation
    /\ user_data["name"] = "John"

(* what the extractor of field f makes of utterance u *)
Extracted(f, u) ==
    CASE f = "name" -> bot_manager.extract_name[u]
      [] f = "company" -> bot_manager.extract_company[u]
      [] f = "email" -> bot_manager.extract_email[u]
      [] f = "phone" -> bot_manager.extract_phone[u]
      [] f = "country" -> bot_manager.extract_country[u]

(* a value is being asked for, not confirmed, and the visitor answers *)
Answering ==
    /\ state \in CollectStates
    /\ ~awaiting_confirmation
    /\ request'.op = "turn"

(* C13: in a collecting state with no value awaiting confirmation, when the
   extractor of the field accepts the input, the returned record holds the
   extractor's value in that field and the other four fields unchanged,
   new_state is the same collecting state, awaiting_confirmation is true and
   the bot_response contains the stored value. *)
C13_AcceptedValueStored ==
    [][ ( /\ Answering
          /\ Extracted(FieldOf(state), request'.user_input) # Nothing ) =>
        ( /\ response'.status = 200
          /\ response'.body.new_state = state
          /\ response'.body.awaiting_confirmation = TRUE
          /\ response'.body.updated_data[FieldOf(state)] =
                 Extracted(FieldOf(state), request'.user_input)[1]
          /\ OthersUnchanged(FieldOf(state))
          /\ Contains[response'.body.bot_response,
                      Extracted(FieldOf(state), request'.user_input)[1]] ) ]_vars

(* the input is rejected: by the extractor, or for a phone by validate_phone *)
Rejected(f, u) ==
    \/ Extracted(f, u) = Nothing
    \/ f = "phone" /\ ~validate_phone(Extracted(f, u)[1])

(* C14: in a collecting state with no value awaiting confirmation, when the
   extractor of the field rejects the input, or for a phone validate_phone
   rejects the extracted value, the turn returns the same collecting state,
   awaiting_confirmation false, show_manual_input true and the record
   unchanged, as a Turn Output and not as an error. *)
C14_RejectedValueReprompts ==
    [][ ( /\ Answering
          /\ Rejected(FieldOf(state), request'.user_input) ) =>
        ( /\ WellFormedTurnOutput(response')
          /\ response'.body.bot_response # Apology
          /\ response'.body.new_state = state
          /\ response'.body.awaiting_confirmation = FALSE
          /\ "show_manual_input" \in DOMAIN response'.body
          /\ response'.body.show_manual_input = TRUE
          /\ response'.body.updated_data = user_data ) ]_vars

(* a phone number with its '+' in the middle has just been turned down *)
C14_Witness ==
    /\ request.op = "turn"
    /\ request.conversation_state = "collect_phone"
    /\ ~request.awaiting_confirmation
    /\ request.user_input \in Garbled
    /\ state = "collect_phone"
    /\ ~awaiting_confirmation
    /\ user_data["phone"] = ""
    /\ response.body.show_manual_input

(* a manual correction of one of the five fields, on a record that holds them *)
ManualProbe ==
    /\ request.op = "manual"
    /\ "user_data" \in DOMAIN request

(* C15: a manual correction with a non-blank value stores the trimmed value in
   the named field, leaves the other four fields unchanged, returns
   awaiting_confirmation false and, as new_state, the collecting state of the
   next field in the order name, company, email, phone, country, or
   final_confirmation when the field is country; for each of the five fields
   and every record of five fields. *)
C15_ManualStoresAndAdvances ==
    ( /\ ManualProbe
      /\ request.field \in FieldSet
      /\ Strip[request.value] # ""
      /\ FieldSet \subseteq DOMAIN request.user_data ) =>
        /\ response.status = 200
        /\ response.body.updated_data[request.field] = Strip[request.value]
        /\ DOMAIN response.body.updated_data = DOMAIN request.user_data
        /\ \A g \in DOMAIN request.user_data \ {request.field} :
               response.body.updated_data[g] = request.user_data[g]
        /\ response.body.awaiting_confirmation = FALSE
        /\ response.body.new_state =
               IF request.field = "country" THEN "final_confirmation"
               ELSE "collect_" \o Fields[FieldIndex(request.field) + 1]

(* " India " has been typed as the company of a filled record *)
C15_Witness ==
    /\ ManualProbe
    /\ request.field = "company"
    /\ request.value = " India "
    /\ request.user_data = FilledRecord
    /\ response.body.updated_data["company"] = "India"
    /\ response.body.updated_data["name"] = "John"
    /\ response.body.new_state = "collect_email"

(* C16: a manual correction with a blank value, empty or of white space only,
   returns the collecting state of the same field, awaiting_confirmation false
   and a record identical to the one it was given. *)
C16_BlankManualStays ==
    ( /\ ManualProbe
      /\ Strip[request.value] = "" ) =>
        /\ response.status = 200
        /\ response.body.new_state = "collect_" \o request.field
        /\ response.body.awaiting_confirmation = FALSE
        /\ response.body.updated_data = request.user_data

(* white space has been typed as the e-mail of a filled record *)
C16_Witness ==
    /\ ManualProbe
    /\ request.field = "email"
    /\ request.value = "  "
    /\ request.user_data = FilledRecord
    /\ response.body.new_state = "collect_email"
    /\ response.body.updated_data = FilledRecord

(* a turn sent at the greeting state, with the record it carried *)
GreetingProbe ==
    /\ request.op = "turn"
    /\ "user_data" \in DOMAIN request
    /\ request.conversation_state = "greeting"

(* C17: at the greeting state an input containing an off-topic keyword keeps
   the state at greeting, with awaiting_confirmation false, whatever mood
   words it also contains and whichever redirect phrase is drawn; no turn at
   greeting changes the record, and a turn at greeting returns only greeting
   or collect_name as new_state. *)
C17_GreetingOffTopicFirst ==
    GreetingProbe =>
        /\ response.status = 200
        /\ response.body.updated_data = request.user_data
        /\ response.body.new_state \in {"greeting", "collect_name"}
        /\ ContainsAny[Lower[request.user_input], off_topic_keywords] =>
               /\ response.body.new_state = "greeting"
               /\ response.body.awaiting_confirmation = FALSE
               /\ response.body.bot_response \in OffTopicReplies

(* "good weather", a mood word and an off-topic keyword, has been said at
   greeting with a filled record and the flag set *)
C17_Witness ==
    /\ GreetingProbe
    /\ request.user_input = "good weather"
    /\ request.user_data = FilledRecord
    /\ request.awaiting_confirmation = TRUE
    /\ response.body.new_state = "greeting"
    /\ response.body.updated_data = FilledRecord

(* the rows of a sheet *)
Rows(store) == { store.rows[i] : i \in 1..Len(store.rows) }

(* thread t has answered its request and to_excel has written its sheet *)
Saved(t) ==
    /\ thread[t].pc = "done"
    /\ thread[t].written # Nothing

(* C18: when two threads save the records of two sessions at the same time,
   both records are in the file afterwards: no update is lost. *)
C18_NoLostUpdate ==
    \A t1, t2 \in Threads :
        ( /\ t1 # t2
          /\ Saved(t1)
          /\ Saved(t2) ) =>
            /\ thread[t1].user_data \in Rows(EXCEL_FILE)
            /\ thread[t2].user_data \in Rows(EXCEL_FILE)

(* to_excel has failed in thread t, and the failure has been logged *)
WriteFailed(t) ==
    \E i \in 1..Len(thread[t].logged) :
        /\ thread[t].logged[i].level = "error"
        /\ thread[t].logged[i].e \in WriteErrors

(* C19: when the file is there and cannot be read, the save still completes:
   unless the write itself fails, a fresh sheet holding the new record and
   nothing else is written, and the turn is answered with the thanks. *)
C19_UnreadableStoreReplaced ==
    \A t \in Threads :
        ( /\ thread[t].pc = "done"
          /\ thread[t].unreadable
          /\ ~WriteFailed(t) ) =>
            /\ thread[t].written = Just(<< thread[t].user_data >>)
            /\ thread[t].out.body.new_state = "finished"

(* C20: when the write of the sink fails in the turn of the last "yes", the
   turn is still answered with the thanks, new_state finished and
   awaiting_confirmation false; the failure is only logged. *)
C20_SinkFailureOnlyLogged ==
    \A t \in Threads :
        ( /\ thread[t].pc = "done"
          /\ WriteFailed(t) ) =>
            /\ thread[t].out.status = 200
            /\ Contains[thread[t].out.body.bot_response, "successfully submitted"]
            /\ thread[t].out.body.new_state = "finished"
            /\ thread[t].out.body.awaiting_confirmation = FALSE
            /\ thread[t].written = Nothing

(* a thread has answered with the thanks after a write that failed *)
C20_Witness ==
    \E t \in Threads :
        /\ thread[t].pc = "done"
        /\ WriteFailed(t)
        /\ thread[t].written = Nothing
        /\ thread[t].out.body.new_state = "finished"

(* what a caller holds of its session *)
Held(s) ==
    << session[s].state, session[s].user_data, session[s].awaiting_confirmation >>

(* C21: the core keeps no state between calls.  Two sessions that started at
   the same place and have said the same things hold the same state, record and
   flag, however their turns were interleaved and whatever reply was drawn; and
   no turn, a restart included, changes the bot or its empty-record template. *)
C21_SessionsDoNotInterfere ==
    /\ bot_manager = VoiceBotManager
    /\ bot_manager.empty_user_data = empty_user_data
    /\ \A s1, s2 \in Sessions :
          ( /\ session[s1].start = session[s2].start
            /\ session[s1].heard = session[s2].heard ) => Held(s1) = Held(s2)

(* both sessions have restarted from final_confirmation, one after the other,
   and have gone on to give a name *)
C21_Witness ==
    /\ session[1].start = "final_confirmation"
    /\ session[2].start = "final_confirmation"
    /\ session[1].heard = session[2].heard
    /\ Len(session[1].heard) >= 2
    /\ session[1].heard[1][1] = "no"
    /\ session[1].user_data["name"] # ""
    /\ session[2].user_data = session[1].user_data

(* a turn request, with the record it carried, has been answered with the apology *)
Apologised ==
    /\ request.op = "turn"
    /\ "user_data" \in DOMAIN request
    /\ response.status = 200
    /\ response.body.bot_response = Apology

(* C22: a turn whose input is malformed, with fields absent or values a handler
   cannot process, is not failed: it is answered with the apology, the absent
   inputs replaced by their defaults, new_state the state of the input, the
   record returned as it was received and awaiting_confirmation false. *)
C22_MalformedTurnApologises ==
    /\ request.op = "turn" => response.status = 200
    /\ Apologised =>
          /\ response.body.new_state = request.conversation_state
          /\ response.body.updated_data = request.user_data
          /\ response.body.awaiting_confirmation = FALSE

(* u matches a phrase of the positive list and a phrase of the negative list,
   by equality or as a substring *)
MatchesBoth(u) ==
    /\ InList[Strip[Lower[u]], positive_responses] \/ ContainsAny[Strip[Lower[u]], positive_responses]
    /\ InList[Strip[Lower[u]], negative_responses] \/ ContainsAny[Strip[Lower[u]], negative_responses]

(* a turn request with a record of five fields and an input matching both lists *)
ContraryProbe ==
    /\ request.op = "turn"
    /\ "user_data" \in DOMAIN request
    /\ FieldSet \subseteq DOMAIN request.user_data
    /\ MatchesBoth(request.user_input)

(* C23: an input that matches both the affirmative and the negative list takes
   the affirmative branch: in a collecting state with a value awaiting
   confirmation the dialogue advances and the field is not cleared, and in
   final_confirmation the record is saved and the dialogue finishes. *)
C23_AffirmativeWins ==
    ContraryProbe =>
        /\ ( /\ request.conversation_state \in CollectStates
             /\ request.awaiting_confirmation ) =>
               /\ response.body.new_state = NextState(request.conversation_state)
               /\ response.body.awaiting_confirmation = FALSE
               /\ response.body.updated_data[FieldOf(request.conversation_state)]
                     = request.user_data[FieldOf(request.conversation_state)]
        /\ request.conversation_state = "final_confirmation" =>
               /\ response.body.new_state = "finished"
               /\ Len(response.sink) = 1
               /\ \A f \in FieldSet : response.body.updated_data[f] = request.user_data[f]

(* "not correct" has confirmed the company of a filled record *)
C23_Witness ==
    /\ ContraryProbe
    /\ request.user_input = "not correct"
    /\ request.conversation_state = "collect_company"
    /\ request.awaiting_confirmation
    /\ request.user_data = FilledRecord
    /\ response.body.new_state = "collect_email"
    /\ response.body.updated_data["company"] = "Acme"

(* C24: finished is terminal.  A turn given the state finished returns
   finished, leaves the record unchanged and does not call the sink. *)
C24_FinishedIsTerminal ==
    [][ ( /\ state = "finished"
          /\ request'.op = "turn" ) =>
        ( /\ response'.body.new_state = "finished"
          /\ response'.body.updated_data = user_data
          /\ Len(response'.sink) = 0 ) ]_vars

(* the digits of a phone, after its leading '+' when it has one *)
DigitsOf(phone) == IF StartsWith[phone, "+"] THEN Tail(phone) ELSE phone

(* C25: formatting with the calling code keeps the phone valid.  When the
   country of the record is in the table and its phone passes validate_phone,
   the phone returned by the affirmative at collect_country has at most 15
   digits after its leading '+' and passes validate_phone. *)
C25_FormattedPhoneStillValid ==
    [][ ( /\ CountryConfirmed
          /\ {"phone", "country"} \subseteq DOMAIN user_data
          /\ InCountryCodeTable(user_data["country"])
          /\ validate_phone(user_data["phone"]) ) =>
        ( /\ Len(DigitsOf(response'.body.updated_data["phone"])) <= 15
          /\ validate_phone(response'.body.updated_data["phone"]) ) ]_vars

(* the record with which final_confirmation is entered when the country is
   spoken and then confirmed: handle_country_collection on "yes", for the
   record holding that country with the flag set *)
SpokenCountryRecord(record, country) ==
    handle_country_collection("yes", Put(record, "country", country), "country", TRUE).result.updated_data

(* C26: the two ways into final_confirmation agree on the record.  Typing the
   country returns the phone that saying the same country and confirming it
   returns: the calling code of the country is applied on both paths. *)
C26_ManualCountryAgrees ==
    ( /\ ManualProbe
      /\ request.field = "country"
      /\ Strip[request.value] # ""
      /\ FieldSet \subseteq DOMAIN request.user_data ) =>
        /\ response.body.new_state = "final_confirmation"
        /\ response.body.updated_data["phone"] =
              SpokenCountryRecord(request.user_data, Strip[request.value])["phone"]

(* C27: along a session that starts at greeting with an empty record and
   feeds each output back as the next input, an output with
   awaiting_confirmation true has a collecting state as new_state and a
   non-empty value in that state's field; awaiting_confirmation is never true
   in greeting, final_confirmation or finished. *)
C27_AwaitingMeansValueHeld ==
    /\ awaiting_confirmation =>
          /\ state \in CollectStates
          /\ FieldOf(state) \in DOMAIN user_data
          /\ user_data[FieldOf(state)] # ""
    /\ ( /\ request.op = "turn"
         /\ response.body.awaiting_confirmation ) =>
          /\ response.body.new_state \in CollectStates
          /\ response.body.updated_data[FieldOf(response.body.new_state)] # ""
    /\ state \in {"greeting", "final_confirmation", "finished"} => ~awaiting_confirmation

(* a spoken e-mail address is awaiting its confirmation *)
C27_Witness ==
    /\ request.op = "turn"
    /\ response.body.awaiting_confirmation
    /\ awaiting_confirmation
    /\ state = "collect_email"
    /\ user_data["email"] = "john@gmail.com"

=============================================================================
